---- MODULE Spec2Model ----
(***************************************************************************)
(* Model of swift-package-readme-mcp-server: the in-memory TTL cache       *)
(* (MemoryCache, CacheManager), the getPackageReadme tool's use of it, the  *)
(* retry wrapper around upstream requests, and the ReadmeParser.            *)
(***************************************************************************)
EXTENDS Integers, Sequences, FiniteSets, TLC

VARIABLES
  cache,       \* the Map of one MemoryCache, in insertion order
  maxSize,     \* its maxSize
  defaultTtl,  \* its defaultTtl (seconds)
  now,         \* Date.now() (ms)
  last,        \* the last call and what it returned
  env,         \* process.env as read by the CacheManager constructor
  mgr,         \* the four MemoryCaches of the CacheManager
  call,        \* the last getPackageReadme request and its outcome
  retry,       \* an upstream request of an API service inside withRetry
  doc,         \* the readmeContent argument handed to the ReadmeParser
  lastIndex,   \* ReadmeParser.CODE_BLOCK_PATTERN.lastIndex
  parsed,      \* the last ReadmeParser call and what it returned
  history,     \* the two ReadmeParser calls before the last one
  hashed,      \* the createQueryHash calls made and the tokens they returned
  setting,     \* a MemoryCache.set call on its way through the make-room loop
  resolving,   \* a SwiftPackageResolver.resolveFromCommonPatterns call
  searches     \* the searchPackages tool calls under way, one per client

partitionVars == <<cache, maxSize, defaultTtl>>

managerVars == <<env, mgr>>

parserVars == <<doc, lastIndex, parsed, history>>

lookupVars == <<hashed, setting, resolving, searches>>

vars == <<cache, maxSize, defaultTtl, now, last, env, mgr, call, retry,
          doc, lastIndex, parsed, history, hashed, setting, resolving, searches>>

\* no ReadmeParser call has been made
NoParse == [op |-> "none"]

NoHistory == [older |-> NoParse, newer |-> NoParse]

\* the ReadmeParser is not part of the behaviour
ParserIdle ==
  /\ doc = <<>>
  /\ lastIndex = 0
  /\ parsed = NoParse
  /\ history = NoHistory

\* no createQueryHash call was made
NoHashes == <<>>

\* no set call is inside the make-room loop
NoSetting == [pc |-> "idle"]

\* no resolveFromCommonPatterns call was made
NoResolving == [pc |-> "idle"]

\* no searchPackages tool call is under way
NoSearches == <<>>

\* createQueryHash, the stepwise set, the resolver and the searchPackages
\* tool are not part of the behaviour
LookupIdle ==
  /\ hashed = NoHashes
  /\ setting = NoSetting
  /\ resolving = NoResolving
  /\ searches = NoSearches

(***************************************************************************)
(* Bounds of the model.                                                    *)
(***************************************************************************)
\* last instant (ms) the modelled clock of one partition reaches
MaxNow == 3000

\* milliseconds the modelled clock of one partition advances in one step
ClockStep == 1000

(***************************************************************************)
(* Values handed to the cache and JSON.stringify on them.                  *)
(***************************************************************************)
\* a string of len characters, an object with a circular reference, undefined
StringValue(n) == [kind |-> "string", len |-> n]

CircularValue == [kind |-> "circular", len |-> 0]

UndefinedValue == [kind |-> "undefined", len |-> 0]

Values == {StringValue(10), StringValue(23), StringValue(100), CircularValue}

Keys == {"k1", "k2"}

\* the optional ttl argument: <<>> when omitted, <<t>> when given (seconds)
TtlArgs == {<<>>, <<0>>, <<2>>}

\* JSON.stringify(obj).length throws: a circular structure makes stringify
\* throw, and stringify(undefined) is undefined, whose .length throws
StringifyLengthThrows(v) == v.kind \in {"circular", "undefined"}

\* JSON.stringify of a string of n characters is the string in quotes; an
\* object of the model carries the length of its JSON text
StringifyLength(v) == IF v.kind = "string" THEN v.len + 2 ELSE v.len

FallbackSize == 1024

estimateSize(v) ==
  IF StringifyLengthThrows(v) THEN FallbackSize ELSE StringifyLength(v) * 2

(***************************************************************************)
(* The Map of one MemoryCache: a sequence of entries in insertion order.   *)
(***************************************************************************)
Entry(k, v, ts, ttlMs) == [key |-> k, data |-> v, timestamp |-> ts, ttl |-> ttlMs]

MapHas(c, k) == \E i \in 1..Len(c) : c[i].key = k

MapGet(c, k) == c[CHOOSE i \in 1..Len(c) : c[i].key = k]

\* variant of MapSet: a key that is already present keeps its old entry
MapSetKeepOld(c, e) == IF MapHas(c, e.key) THEN c ELSE Append(c, e)

\* Map.set keeps the position of a key that is already present
MapSet(c, e) ==
  IF MapHas(c, e.key)
  THEN [i \in 1..Len(c) |-> IF c[i].key = e.key THEN e ELSE c[i]]
  ELSE Append(c, e)

MapDelete(c, k) == SelectSeq(c, LAMBDA e : e.key # k)

DefaultMaxSize == 100 * 1024 * 1024

DefaultTtlSeconds == 3600

\* options.x || default: a missing option is 0 here, and 0 is falsy as well
NewMaxSize(options) == IF options.maxSize # 0 THEN options.maxSize ELSE DefaultMaxSize

NewDefaultTtl(options) == IF options.ttl # 0 THEN options.ttl ELSE DefaultTtlSeconds

\* ttl || this.defaultTtl
TtlOrDefault(ttlArg, dflt) == IF ttlArg = <<>> \/ ttlArg[1] = 0 THEN dflt ELSE ttlArg[1]

\* variant of isExpired: the stored milliseconds converted once more
isExpiredTwiceConverted(e, t) == t - e.timestamp > e.ttl * 1000

isExpired(e, t) == t - e.timestamp > e.ttl

\* variant of evictExpired: the sweep stops after the first expired entry
evictExpiredOnce(c, t) ==
  IF \E i \in 1..Len(c) : isExpired(c[i], t)
  THEN MapDelete(c, c[CHOOSE i \in 1..Len(c) :
                        isExpired(c[i], t) /\ \A j \in 1..(i - 1) : ~isExpired(c[j], t)].key)
  ELSE c

evictExpired(c, t) == SelectSeq(c, LAMBDA e : ~isExpired(e, t))

\* removes the first key of the Map, if (firstKey): no key at all and the
\* empty string are falsy, and then nothing is removed
evictLRU(c) == IF c # <<>> /\ Head(c).key # "" THEN Tail(c) ELSE c

RECURSIVE SumSizes(_)
SumSizes(c) == IF c = <<>> THEN 0 ELSE estimateSize(Head(c).data) + SumSizes(Tail(c))

getCurrentSize(c) == SumSizes(c)

\* this.cache.clear()
clear(c) == <<>>

getStats(c) == [size |-> Len(c), estimatedMemoryUsage |-> getCurrentSize(c)]

needsRoom(c, est, max) == getCurrentSize(c) + est > max /\ Len(c) > 0

\* variant of makeRoom: the loop written as a single if
makeRoomOnce(c, est, max) == IF needsRoom(c, est, max) THEN evictLRU(c) ELSE c

RECURSIVE makeRoom(_, _, _)
makeRoom(c, est, max) ==
  IF needsRoom(c, est, max) THEN makeRoom(evictLRU(c), est, max) ELSE c

\* the evictions of the loop, each with the entries that stayed behind
RECURSIVE evictionLog(_, _, _)
evictionLog(c, est, max) ==
  IF needsRoom(c, est, max)
  THEN <<[victim |-> Head(c), rest |-> evictLRU(c)]>> \o evictionLog(evictLRU(c), est, max)
  ELSE <<>>

tooLarge(v, max) == estimateSize(v) > max

\* variant of cacheSet: a refused write also removes the key
cacheSetDropsKey(c, k, v, ttlArg, t, max, dflt) ==
  LET entry == Entry(k, v, t, TtlOrDefault(ttlArg, dflt) * 1000)
      swept == evictExpired(c, t)
  IN  IF tooLarge(v, max)
      THEN MapDelete(swept, k)
      ELSE MapSet(makeRoom(swept, estimateSize(v), max), entry)

cacheSet(c, k, v, ttlArg, t, max, dflt) ==
  LET entry == Entry(k, v, t, TtlOrDefault(ttlArg, dflt) * 1000)
      swept == evictExpired(c, t)
  IN  IF tooLarge(v, max)
      THEN swept
      ELSE MapSet(makeRoom(swept, estimateSize(v), max), entry)

cacheGetResult(c, k, t) ==
  IF ~MapHas(c, k) THEN UndefinedValue
  ELSE IF isExpired(MapGet(c, k), t) THEN UndefinedValue
  ELSE MapGet(c, k).data

cacheHasResult(c, k, t) == MapHas(c, k) /\ ~isExpired(MapGet(c, k), t)

\* variant of cacheAfterRead: the read sweeps every expired entry
cacheAfterReadSweeps(c, k, t) == evictExpired(c, t)

\* get and has delete the entry they find expired
cacheAfterRead(c, k, t) ==
  IF MapHas(c, k) /\ isExpired(MapGet(c, k), t) THEN MapDelete(c, k) ELSE c

(***************************************************************************)
(* CacheManager: four MemoryCaches built from the same options.            *)
(***************************************************************************)
NoEnv == [CACHE_TTL |-> "", CACHE_MAX_SIZE |-> ""]

\* parseInt(s, 10) on the strings the model puts in the environment
parseInt(s) ==
  CASE s = "50" -> 50
    [] s = "3600" -> 3600
    [] s = "104857600" -> 104857600

\* process.env.X || dflt: an unset or empty variable is falsy
EnvOr(s, dflt) == IF s = "" THEN dflt ELSE s

SearchTtlSeconds == 1800

NewMemoryCache(options) ==
  [cache |-> <<>>, maxSize |-> NewMaxSize(options), defaultTtl |-> NewDefaultTtl(options)]

cacheOptions(e) ==
  [ttl |-> parseInt(EnvOr(e.CACHE_TTL, "3600")),
   maxSize |-> parseInt(EnvOr(e.CACHE_MAX_SIZE, "104857600"))]

NewCacheManager(e) ==
  [packageInfoCache |-> NewMemoryCache(cacheOptions(e)),
   packageReadmeCache |-> NewMemoryCache(cacheOptions(e)),
   searchCache |-> NewMemoryCache([cacheOptions(e) EXCEPT !.ttl = SearchTtlSeconds]),
   generalCache |-> NewMemoryCache(cacheOptions(e))]

\* the value of mgr where no CacheManager is modelled
NoManager == NewCacheManager(NoEnv)

pkgInfoKey(packageName, version) == "pkg_info:" \o packageName \o ":" \o version

pkgReadmeKey(packageName, version) == "pkg_readme:" \o packageName \o ":" \o version

searchKey(queryHash, limit) == "search:" \o queryHash \o ":" \o limit

\* MemoryCache.set / get on one of the manager's caches
partitionSet(m, p, k, v, ttlArg, t) ==
  [m EXCEPT ![p].cache = cacheSet(m[p].cache, k, v, ttlArg, t, m[p].maxSize, m[p].defaultTtl)]

partitionAfterGet(m, p, k, t) == [m EXCEPT ![p].cache = cacheAfterRead(m[p].cache, k, t)]

\* the value of call where no request was made
NoCall == [package_name |-> "", version |-> <<>>, include_examples |-> <<>>,
           outcome |-> "none", response |-> UndefinedValue, fromCache |-> FALSE]

(***************************************************************************)
(* ErrorHandler.withRetry around makeRequest of the two API services.      *)
(***************************************************************************)
\* a thrown value: isError (instanceof Error), statusCode (0: no such
\* property), retryAfter (details.retryAfter, <<>>: none)
NoError == [isError |-> FALSE, name |-> "", message |-> "", statusCode |-> 0,
            retryAfter |-> <<>>]

\* the value of retry where no request is under way
NoRequest == [pc |-> "idle", service |-> "", method |-> "", attempt |-> 0,
              outcomes |-> <<>>, lastError |-> NoError, slept |-> <<>>,
              reported |-> "none"]

maxRetries == 3

baseDelayMs == 1000

maxDelayMs == 8000

backoffFactor == 2

DefaultRetryAfterSeconds == 60

RECURSIVE pow(_, _)
pow(b, n) == IF n = 0 THEN 1 ELSE b * pow(b, n - 1)

min(a, b) == IF a < b THEN a ELSE b

max(a, b) == IF a > b THEN a ELSE b

serviceLabel(service) == IF service = "github" THEN "GitHub" ELSE "Swift Package Index"

\* what makeRequest throws on an upstream outcome (a 2xx response throws
\* nothing): fetch and the timeout reject with an Error, the status checks
\* throw object literals
makeRequestThrows(service, outcome) ==
  CASE outcome.kind = "fetch failed" ->
         [NoError EXCEPT !.isError = TRUE, !.name = "TypeError", !.message = "fetch failed"]
    [] outcome.kind = "timeout" ->
         [NoError EXCEPT !.isError = TRUE, !.name = "Error",
                         !.message = "Operation timed out after 30000ms"]
    [] outcome.kind = "response" /\ outcome.status = 429 ->
         [NoError EXCEPT !.name = "RateLimitError",
                         !.message = serviceLabel(service) \o " API rate limit exceeded",
                         !.statusCode = 429,
                         !.retryAfter = IF outcome.retryAfter = <<>>
                                        THEN <<DefaultRetryAfterSeconds>>
                                        ELSE outcome.retryAfter]
    [] outcome.kind = "response" /\ outcome.status = 404 ->
         [NoError EXCEPT !.name = "PackageNotFoundError",
                         !.message = "not found: " \o serviceLabel(service),
                         !.statusCode = 404]
    [] OTHER ->
         [NoError EXCEPT !.name = "NetworkError",
                         !.message = serviceLabel(service) \o " API error",
                         !.statusCode = outcome.status]

responseOk(outcome) ==
  outcome.kind = "response" /\ outcome.status >= 200 /\ outcome.status <= 299

\* error instanceof Error ? error : new Error(String(error))
asError(thrown) ==
  IF thrown.isError THEN thrown
  ELSE [NoError EXCEPT !.isError = TRUE, !.name = "Error", !.message = "[object Object]"]

RetryableStatusCodes == {429, 500, 502, 503, 504}

isRetryableError(error) ==
  IF error.isError /\ error.statusCode # 0
  THEN error.statusCode \in RetryableStatusCodes
  ELSE error.name = "NetworkError" \/ error.message = "fetch failed"

backoffDelay(attempt) == min(baseDelayMs * pow(backoffFactor, attempt), maxDelayMs)

\* the sleep before the next attempt
retrySleep(error, attempt) ==
  IF error.statusCode = 429 /\ error.retryAfter # <<>>
  THEN max(backoffDelay(attempt), error.retryAfter[1] * 1000)
  ELSE backoffDelay(attempt)

(***************************************************************************)
(* One MemoryCache partition.                                              *)
(***************************************************************************)
\* what the last call was and what it returned: op and its arguments, ret
\* (get), ok (has, delete), warned (set logged 'Cache entry too large,
\* skipping'), evictions (the evictLRU calls of set), seen (the entry the
\* Map held under the key when the call began), had (has(key) held then;
\* for clear and clearAll: an entry was stored then)
NoOp == [op |-> "none", key |-> "", value |-> UndefinedValue,
         ret |-> UndefinedValue, ok |-> FALSE, warned |-> FALSE,
         evictions |-> <<>>, seen |-> <<>>, had |-> FALSE]

seenEntry(c, k) == IF MapHas(c, k) THEN <<MapGet(c, k)>> ELSE <<>>

PartitionOptions == {[ttl |-> 1, maxSize |-> 50], [ttl |-> 1, maxSize |-> 2048]}

InitPartition ==
  /\ cache = <<>>
  /\ \E o \in PartitionOptions :
       /\ maxSize = NewMaxSize(o)
       /\ defaultTtl = NewDefaultTtl(o)
  /\ now = 0
  /\ last = NoOp
  /\ env = NoEnv
  /\ mgr = NoManager
  /\ call = NoCall
  /\ retry = NoRequest
  /\ ParserIdle
  /\ LookupIdle

Set ==
  \E k \in Keys, v \in Values, ttlArg \in TtlArgs :
    LET swept == evictExpired(cache, now) IN
    /\ cache' = cacheSet(cache, k, v, ttlArg, now, maxSize, defaultTtl)
    /\ last' = [NoOp EXCEPT !.op = "set", !.key = k, !.value = v,
                  !.warned = tooLarge(v, maxSize),
                  !.evictions = IF tooLarge(v, maxSize) THEN <<>>
                                ELSE evictionLog(swept, estimateSize(v), maxSize),
                  !.seen = seenEntry(cache, k),
                  !.had = cacheHasResult(cache, k, now)]
    /\ UNCHANGED <<maxSize, defaultTtl, now, managerVars, call, retry, parserVars, lookupVars>>

Get ==
  \E k \in Keys :
    /\ cache' = cacheAfterRead(cache, k, now)
    /\ last' = [NoOp EXCEPT !.op = "get", !.key = k,
                  !.ret = cacheGetResult(cache, k, now),
                  !.seen = seenEntry(cache, k)]
    /\ UNCHANGED <<maxSize, defaultTtl, now, managerVars, call, retry, parserVars, lookupVars>>

Has ==
  \E k \in Keys :
    /\ cache' = cacheAfterRead(cache, k, now)
    /\ last' = [NoOp EXCEPT !.op = "has", !.key = k,
                  !.ok = cacheHasResult(cache, k, now),
                  !.seen = seenEntry(cache, k)]
    /\ UNCHANGED <<maxSize, defaultTtl, now, managerVars, call, retry, parserVars, lookupVars>>

Delete ==
  \E k \in Keys :
    /\ cache' = MapDelete(cache, k)
    /\ last' = [NoOp EXCEPT !.op = "delete", !.key = k, !.ok = MapHas(cache, k)]
    /\ UNCHANGED <<maxSize, defaultTtl, now, managerVars, call, retry, parserVars, lookupVars>>

Clear ==
  /\ cache' = clear(cache)
  /\ last' = [NoOp EXCEPT !.op = "clear", !.had = cache # <<>>]
  /\ UNCHANGED <<maxSize, defaultTtl, now, managerVars, call, retry, parserVars, lookupVars>>

\* Date.now() moves on between two calls
Tick ==
  /\ now + ClockStep <= MaxNow
  /\ now' = now + ClockStep
  /\ last' = NoOp
  /\ UNCHANGED <<partitionVars, managerVars, call, retry, parserVars, lookupVars>>

NextPartition == Set \/ Get \/ Has \/ Delete \/ Clear \/ Tick

SpecPartition == InitPartition /\ [][NextPartition]_vars

(***************************************************************************)
(* Properties of one MemoryCache partition.                                *)
(***************************************************************************)
\* C1: immediately after a set(key, value, ttl) that was not refused, get(key)
\* returns value and has(key) is true
SetThenGet ==
  (last.op = "set" /\ ~last.warned) =>
     /\ cacheGetResult(cache, last.key, now) = last.value
     /\ cacheHasResult(cache, last.key, now)

\* a set that overwrote a live entry holding another value
SetThenGetWitness ==
  /\ last.op = "set" /\ ~last.warned /\ last.had
  /\ last.seen[1].data # last.value
  /\ MapGet(cache, last.key).data = last.value

\* C2: a get or has that finds the entry more than its ttl after its insertion
\* answers absent / false, and a read that answers with an entry does so
\* within the entry's ttl
TtlExpiry ==
  last.op \in {"get", "has"} =>
     /\ (last.seen # <<>> /\ now - last.seen[1].timestamp > last.seen[1].ttl)
           => (last.ret = UndefinedValue /\ ~last.ok /\ ~MapHas(cache, last.key))
     /\ (last.ret # UndefinedValue \/ last.ok)
           => (last.seen # <<>> /\ now - last.seen[1].timestamp <= last.seen[1].ttl)

\* a get that met an entry older than its ttl
TtlExpiryWitness ==
  /\ last.op = "get" /\ last.seen # <<>>
  /\ now - last.seen[1].timestamp > last.seen[1].ttl
  /\ last.ret = UndefinedValue

\* C3: the estimated sizes of the stored entries of a partition sum to at most
\* maxSize
SizeWithinBudget == getCurrentSize(cache) <= maxSize

\* a set that had to evict twice and filled the budget
SizeWithinBudgetWitness ==
  /\ last.op = "set" /\ Len(last.evictions) >= 2
  /\ getCurrentSize(cache) = maxSize

\* C4: no entry is evicted by set while an entry with an older insertion
\* timestamp stays stored
EvictsOldestInserted ==
  \A i \in 1..Len(last.evictions) :
    \A j \in 1..Len(last.evictions[i].rest) :
      last.evictions[i].rest[j].timestamp >= last.evictions[i].victim.timestamp

\* C5: after set(key, v) with a v that does not serialize, on a partition that
\* held no entry under key, has(key) is false
UnserializableNotStored ==
  (last.op = "set" /\ StringifyLengthThrows(last.value) /\ last.seen = <<>>) =>
     ~cacheHasResult(cache, last.key, now)

\* C6 as stated: after a set refused for size has(key) is false, whatever the
\* partition held before
RefusedSetLeavesKeyAbsent ==
  (last.op = "set" /\ last.warned) => ~cacheHasResult(cache, last.key, now)

\* C6 amended: after a set refused for size, has(key) is what it was before the
\* call, and a live entry under key is kept as it was
RefusedSetKeepsKey ==
  (last.op = "set" /\ last.warned) =>
     /\ cacheHasResult(cache, last.key, now) = last.had
     /\ last.had => MapGet(cache, last.key) = last.seen[1]

\* a refused set on a key that held a live entry
RefusedSetKeepsKeyWitness ==
  /\ last.op = "set" /\ last.warned /\ last.had
  /\ cacheHasResult(cache, last.key, now)

(***************************************************************************)
(* The CacheManager under its callers.                                     *)
(***************************************************************************)
\* slack (ms) past the documented expiry instants the manager's clock visits
MaxSlack == 1

ManagerInstants == {0} \cup {s * 1000 + d : s \in {1800, 3600}, d \in 0..MaxSlack}

ManagerEnvs == {[CACHE_TTL |-> "", CACHE_MAX_SIZE |-> m] : m \in {"", "50"}}

PackageNames == {"Alamofire"}

Versions == {"latest"}

QueryHashes == {"eyJxIjoiYSJ9"}

Limits == {"20"}

GeneralKeys == {"github_readme:o:r:default"}

GeneralTtlArgs == {<<>>, <<1800>>}

ManagerValues == {StringValue(10)}

InitManager ==
  /\ cache = <<>>
  /\ maxSize = DefaultMaxSize
  /\ defaultTtl = DefaultTtlSeconds
  /\ now = 0
  /\ last = NoOp
  /\ env \in ManagerEnvs
  /\ mgr = NewCacheManager(env)
  /\ call = NoCall
  /\ retry = NoRequest
  /\ ParserIdle
  /\ LookupIdle

\* a set through the manager on partition p
ManagerSetCall(name, p, k, v, ttlArg) ==
  /\ mgr' = partitionSet(mgr, p, k, v, ttlArg, now)
  /\ last' = [NoOp EXCEPT !.op = name, !.key = k, !.value = v,
                !.warned = tooLarge(v, mgr[p].maxSize),
                !.seen = seenEntry(mgr[p].cache, k),
                !.had = cacheHasResult(mgr[p].cache, k, now)]
  /\ UNCHANGED <<partitionVars, now, env, call, retry, parserVars, lookupVars>>

\* a get through the manager on partition p
ManagerGetCall(name, p, k) ==
  /\ mgr' = partitionAfterGet(mgr, p, k, now)
  /\ last' = [NoOp EXCEPT !.op = name, !.key = k,
                !.ret = cacheGetResult(mgr[p].cache, k, now),
                !.seen = seenEntry(mgr[p].cache, k)]
  /\ UNCHANGED <<partitionVars, now, env, call, retry, parserVars, lookupVars>>

setPackageInfo ==
  \E n \in PackageNames, ver \in Versions, v \in ManagerValues :
    ManagerSetCall("setPackageInfo", "packageInfoCache", pkgInfoKey(n, ver), v, <<>>)

getPackageInfo ==
  \E n \in PackageNames, ver \in Versions :
    ManagerGetCall("getPackageInfo", "packageInfoCache", pkgInfoKey(n, ver))

setPackageReadme ==
  \E n \in PackageNames, ver \in Versions, v \in ManagerValues :
    ManagerSetCall("setPackageReadme", "packageReadmeCache", pkgReadmeKey(n, ver), v, <<>>)

getPackageReadme ==
  \E n \in PackageNames, ver \in Versions :
    ManagerGetCall("getPackageReadme", "packageReadmeCache", pkgReadmeKey(n, ver))

setSearchResults ==
  \E q \in QueryHashes, l \in Limits, v \in ManagerValues :
    ManagerSetCall("setSearchResults", "searchCache", searchKey(q, l), v, <<>>)

getSearchResults ==
  \E q \in QueryHashes, l \in Limits :
    ManagerGetCall("getSearchResults", "searchCache", searchKey(q, l))

setGeneral ==
  \E k \in GeneralKeys, v \in ManagerValues, ttlArg \in GeneralTtlArgs :
    ManagerSetCall("setGeneral", "generalCache", k, v, ttlArg)

getGeneral ==
  \E k \in GeneralKeys :
    ManagerGetCall("getGeneral", "generalCache", k)

\* variant of clearAll: the general partition is left out
clearAllButGeneral ==
  /\ mgr' = [p \in DOMAIN mgr |->
               IF p = "generalCache" THEN mgr[p] ELSE [mgr[p] EXCEPT !.cache = clear(mgr[p].cache)]]
  /\ last' = [NoOp EXCEPT !.op = "clearAll", !.had = \A p \in DOMAIN mgr : mgr[p].cache # <<>>]
  /\ UNCHANGED <<partitionVars, now, env, call, retry, parserVars, lookupVars>>

clearAll ==
  /\ mgr' = [p \in DOMAIN mgr |-> [mgr[p] EXCEPT !.cache = clear(mgr[p].cache)]]
  /\ last' = [NoOp EXCEPT !.op = "clearAll", !.had = \A p \in DOMAIN mgr : mgr[p].cache # <<>>]
  /\ UNCHANGED <<partitionVars, now, env, call, retry, parserVars, lookupVars>>

\* Date.now() moves on to a later instant
ManagerTick ==
  \E t \in ManagerInstants :
    /\ t > now
    /\ now' = t
    /\ last' = NoOp
    /\ UNCHANGED <<partitionVars, managerVars, call, retry, parserVars, lookupVars>>

NextManager ==
  \/ setPackageInfo \/ getPackageInfo
  \/ setPackageReadme \/ getPackageReadme
  \/ setSearchResults \/ getSearchResults
  \/ setGeneral \/ getGeneral
  \/ clearAll \/ ManagerTick

SpecManager == InitManager /\ [][NextManager]_vars

(***************************************************************************)
(* Properties of the CacheManager.                                         *)
(***************************************************************************)
ReadmeDocumentedTtlMs == 30 * 60 * 1000

SearchDocumentedTtlMs == 30 * 60 * 1000

PackageInfoDocumentedTtlMs == 60 * 60 * 1000

expectAbsentAfter(getter, ttlMs) ==
  (last.op = getter /\ last.seen # <<>> /\ now - last.seen[1].timestamp > ttlMs)
     => last.ret = UndefinedValue

\* C8: with the default configuration an entry of the README partition is
\* absent more than 30 minutes after its write, one of the search partition
\* more than 30 minutes after, one of the package info partition more than 1
\* hour after
PartitionDefaultTtls ==
  env = NoEnv =>
     /\ expectAbsentAfter("getPackageReadme", ReadmeDocumentedTtlMs)
     /\ expectAbsentAfter("getSearchResults", SearchDocumentedTtlMs)
     /\ expectAbsentAfter("getPackageInfo", PackageInfoDocumentedTtlMs)

managerSize(m) ==
  getCurrentSize(m.packageInfoCache.cache) + getCurrentSize(m.packageReadmeCache.cache)
    + getCurrentSize(m.searchCache.cache) + getCurrentSize(m.generalCache.cache)

\* C9: the estimated sizes of the entries of the four partitions together sum
\* to at most the one configured maximum
ManagerWithinBudget ==
  managerSize(mgr) <= parseInt(EnvOr(env.CACHE_MAX_SIZE, "104857600"))

(***************************************************************************)
(* getPackageReadme over the CacheManager, with upstream data that does    *)
(* not change.                                                             *)
(***************************************************************************)
\* lengths of the JSON text of the modelled upstream objects
RepositoryJsonLength == 300

ReleaseJsonLength == 120

ReadmeJsonLength == 400

ResponseJsonLength == 900

ExampleJsonLength == 80

\* instants the clock of this specification visits
ToolInstants == {0, 600001, 1800001, 3600001}

ToolPackageNames == {"Alamofire/Alamofire", "nobody/nothing"}

ToolVersionArgs == {<<>>, <<"latest">>, <<"5.8.0">>}

IncludeExamplesArgs == {<<>>, <<TRUE>>, <<FALSE>>}

\* upstream: the repositories GitHub knows, their latest release, their README
GitHubRepositories == {"Alamofire/Alamofire"}

latestReleaseTag(repo) == "5.8.0"

readmeContent(repo, ref) == "README of " \o repo \o " at " \o ref

\* ReadmeParser.extractUsageExamples on the READMEs of the model
readmeUsageExamples(content) == <<"Usage 1", "Usage 2">>

repositoryObject(repo) ==
  [kind |-> "object", len |-> RepositoryJsonLength, id |-> "repo:" \o repo]

releaseObject(repo) ==
  [kind |-> "object", len |-> ReleaseJsonLength, id |-> latestReleaseTag(repo)]

readmeObject(repo, ref) ==
  [kind |-> "object", len |-> ReadmeJsonLength, id |-> readmeContent(repo, ref)]

\* a GitHubApiService getter: the general cache first, else the upstream
\* value, which is cached for ttl seconds
githubFetch(m, k, upstream, ttl, t) ==
  LET cached == cacheGetResult(m.generalCache.cache, k, t)
      probed == partitionAfterGet(m, "generalCache", k, t)
  IN  IF cached # UndefinedValue
      THEN [m |-> probed, value |-> cached]
      ELSE [m |-> partitionSet(probed, "generalCache", k, upstream, <<ttl>>, t),
            value |-> upstream]

\* params.version || 'latest'
versionOrLatest(versionArg) == IF versionArg = <<>> THEN "latest" ELSE versionArg[1]

\* params.include_examples !== false
includeExamplesOf(includeArg) == includeArg # <<FALSE>>

buildResponse(name, targetVersion, content, includeExamples) ==
  LET examples == IF includeExamples THEN readmeUsageExamples(content) ELSE <<>>
  IN  [kind |-> "object",
       len |-> ResponseJsonLength + ExampleJsonLength * Len(examples),
       package_name |-> name,
       version |-> targetVersion,
       readme_content |-> content,
       usage_examples |-> examples]

\* the part of getPackageReadme after a cache miss, for a repository GitHub
\* knows: the manager after it and the response
fetchFresh(m, name, versionArg, includeArg, t) ==
  LET version == versionOrLatest(versionArg)
      repoStep == githubFetch(m, "github_repo:" \o name, repositoryObject(name), 3600, t)
      releaseStep ==
        IF version = "latest"
        THEN githubFetch(repoStep.m, "github_latest_release:" \o name,
                         releaseObject(name), 600, t)
        ELSE [m |-> repoStep.m, value |-> UndefinedValue]
      targetVersion == IF version = "latest" THEN releaseStep.value.id ELSE version
      readmeStep == githubFetch(releaseStep.m, "github_readme:" \o name \o ":" \o targetVersion,
                                readmeObject(name, targetVersion), 1800, t)
      response == buildResponse(name, targetVersion, readmeStep.value.id,
                                includeExamplesOf(includeArg))
  IN  [m |-> partitionSet(readmeStep.m, "packageReadmeCache",
                          pkgReadmeKey(name, version), response, <<>>, t),
       response |-> response]

\* what a request gets from a manager that holds nothing
coldResponse(name, versionArg, includeArg) ==
  fetchFresh(NoManager, name, versionArg, includeArg, 0).response

InitTool ==
  /\ cache = <<>>
  /\ maxSize = DefaultMaxSize
  /\ defaultTtl = DefaultTtlSeconds
  /\ now = 0
  /\ last = NoOp
  /\ env = NoEnv
  /\ mgr = NewCacheManager(env)
  /\ call = NoCall
  /\ retry = NoRequest
  /\ ParserIdle
  /\ LookupIdle

getPackageReadmeTool ==
  \E name \in ToolPackageNames, versionArg \in ToolVersionArgs,
     includeArg \in IncludeExamplesArgs :
    LET version == versionOrLatest(versionArg)
        k == pkgReadmeKey(name, version)
        cached == cacheGetResult(mgr.packageReadmeCache.cache, k, now)
        probed == partitionAfterGet(mgr, "packageReadmeCache", k, now)
        request == [NoCall EXCEPT !.package_name = name, !.version = versionArg,
                                  !.include_examples = includeArg]
    IN  /\ IF cached # UndefinedValue
           THEN /\ mgr' = probed
                /\ call' = [request EXCEPT !.outcome = "response", !.response = cached,
                                           !.fromCache = TRUE]
           ELSE IF name \notin GitHubRepositories
           THEN /\ mgr' = probed
                /\ call' = [request EXCEPT !.outcome = "threw"]
           ELSE LET fresh == fetchFresh(probed, name, versionArg, includeArg, now)
                IN  /\ mgr' = fresh.m
                    /\ call' = [request EXCEPT !.outcome = "response",
                                               !.response = fresh.response]
        /\ UNCHANGED <<partitionVars, now, last, env, retry, parserVars, lookupVars>>

ToolTick ==
  \E t \in ToolInstants :
    /\ t > now
    /\ now' = t
    /\ call' = NoCall
    /\ UNCHANGED <<partitionVars, last, managerVars, retry, parserVars, lookupVars>>

NextTool == getPackageReadmeTool \/ ToolTick

SpecTool == InitTool /\ [][NextTool]_vars

\* C7: a request answered from the cache gets the response the same request
\* gets from a cold cache
CacheHitEqualsColdFetch ==
  (call.outcome = "response" /\ call.fromCache) =>
     call.response = coldResponse(call.package_name, call.version, call.include_examples)

(***************************************************************************)
(* An upstream request of GitHubApiService or SwiftPackageIndexApiService. *)
(***************************************************************************)
ServiceMethods ==
  {[service |-> "github", method |-> "getRepository"],
   [service |-> "github", method |-> "getReadme"],
   [service |-> "github", method |-> "getLatestRelease"],
   [service |-> "spi", method |-> "getPackage"],
   [service |-> "spi", method |-> "searchPackages"]}

ResponseStatuses == {200, 404, 429, 500, 502, 503, 504}

UpstreamOutcomes ==
  {[kind |-> "response", status |-> st, retryAfter |-> <<>>] : st \in ResponseStatuses}
    \cup {[kind |-> "response", status |-> 429, retryAfter |-> <<120>>]}
    \cup {[kind |-> k, status |-> 0, retryAfter |-> <<>>] : k \in {"fetch failed", "timeout"}}

InitRetry ==
  /\ cache = <<>>
  /\ maxSize = DefaultMaxSize
  /\ defaultTtl = DefaultTtlSeconds
  /\ now = 0
  /\ last = NoOp
  /\ env = NoEnv
  /\ mgr = NoManager
  /\ call = NoCall
  /\ retry = NoRequest
  /\ ParserIdle
  /\ LookupIdle

\* a service method reaches its call of ErrorHandler.withRetry
StartRequest ==
  /\ retry.pc \in {"idle", "resolved", "rejected"}
  /\ \E sm \in ServiceMethods :
       retry' = [NoRequest EXCEPT !.pc = "attempting", !.service = sm.service,
                                  !.method = sm.method]
  /\ UNCHANGED <<partitionVars, now, last, managerVars, call, parserVars, lookupVars>>

\* what the service method hands its caller when withRetry rejects
reportRejection(method, error) ==
  IF method = "getLatestRelease" /\ error.statusCode = 404 THEN "null" ELSE "threw"

\* variant of Attempt: the last pass is the one after attempt maxRetries
AttemptOnceMore ==
  /\ retry.pc = "attempting"
  /\ \E outcome \in UpstreamOutcomes :
       LET tried == [retry EXCEPT !.outcomes = Append(@, outcome)]
           lastError == asError(makeRequestThrows(retry.service, outcome))
       IN  retry' =
             IF responseOk(outcome)
             THEN [tried EXCEPT !.pc = "resolved", !.reported = "value"]
             ELSE IF retry.attempt = maxRetries + 1 \/ ~isRetryableError(lastError)
             THEN [tried EXCEPT !.pc = "rejected", !.lastError = lastError,
                                !.reported = reportRejection(retry.method, lastError)]
             ELSE [tried EXCEPT !.pc = "sleeping", !.lastError = lastError,
                                !.slept = Append(@, retrySleep(lastError, retry.attempt))]
  /\ UNCHANGED <<partitionVars, now, last, managerVars, call, parserVars, lookupVars>>

\* one pass of the loop of withRetry: operation() and the catch block
Attempt ==
  /\ retry.pc = "attempting"
  /\ \E outcome \in UpstreamOutcomes :
       LET tried == [retry EXCEPT !.outcomes = Append(@, outcome)]
           lastError == asError(makeRequestThrows(retry.service, outcome))
       IN  retry' =
             IF responseOk(outcome)
             THEN [tried EXCEPT !.pc = "resolved", !.reported = "value"]
             ELSE IF retry.attempt = maxRetries \/ ~isRetryableError(lastError)
             THEN [tried EXCEPT !.pc = "rejected", !.lastError = lastError,
                                !.reported = reportRejection(retry.method, lastError)]
             ELSE [tried EXCEPT !.pc = "sleeping", !.lastError = lastError,
                                !.slept = Append(@, retrySleep(lastError, retry.attempt))]
  /\ UNCHANGED <<partitionVars, now, last, managerVars, call, parserVars, lookupVars>>

\* the sleep ends and the loop goes on
Wake ==
  /\ retry.pc = "sleeping"
  /\ retry' = [retry EXCEPT !.pc = "attempting", !.attempt = @ + 1]
  /\ UNCHANGED <<partitionVars, now, last, managerVars, call, parserVars, lookupVars>>

NextRetry == StartRequest \/ Attempt \/ Wake

SpecRetry == InitRetry /\ [][NextRetry]_vars

\* the operation settles and the timer of sleep fires: a request that has
\* begun goes on to its next step
SpecRetryFair == SpecRetry /\ WF_vars(Attempt) /\ WF_vars(Wake)

lastOutcome == retry.outcomes[Len(retry.outcomes)]

\* C10: a failure is reported to the caller for a request that met a 429 or a
\* 500, 502, 503, 504 only after the 3 retries were made, with exponential
\* backoff between the attempts
TransientFailuresAreRetried ==
  (/\ retry.pc = "rejected"
   /\ lastOutcome.kind = "response"
   /\ lastOutcome.status \in RetryableStatusCodes) =>
     /\ Len(retry.outcomes) = maxRetries + 1
     /\ \A i \in 1..Len(retry.slept) : retry.slept[i] >= backoffDelay(i - 1)

(***************************************************************************)
(* ReadmeParser (src/services/readme-parser.ts).  A string is a sequence   *)
(* of one-character strings; a position is an index into it, from 1.       *)
(***************************************************************************)
NL == "\n"

\* what \s matches
isWhitespace(c) == c \in {" ", NL, "\t"}

UpperLetters ==
  <<"A", "B", "C", "D", "E", "F", "G", "H", "I", "J", "K", "L", "M",
    "N", "O", "P", "Q", "R", "S", "T", "U", "V", "W", "X", "Y", "Z">>

LowerLetters ==
  <<"a", "b", "c", "d", "e", "f", "g", "h", "i", "j", "k", "l", "m",
    "n", "o", "p", "q", "r", "s", "t", "u", "v", "w", "x", "y", "z">>

Digits == {"0", "1", "2", "3", "4", "5", "6", "7", "8", "9"}

Range(f) == {f[i] : i \in DOMAIN f}

WordChars == Range(UpperLetters) \cup Range(LowerLetters) \cup Digits \cup {"_"}

\* what \w matches
isWordChar(c) == c \in WordChars

LowerOf == [c \in Range(UpperLetters) |-> LowerLetters[CHOOSE i \in 1..26 : UpperLetters[i] = c]]

toLowerChar(c) == IF c \in DOMAIN LowerOf THEN LowerOf[c] ELSE c

\* String.prototype.toLowerCase
toLowerCase(s) == [i \in 1..Len(s) |-> toLowerChar(s[i])]

Minimum(S) == CHOOSE x \in S : \A y \in S : x <= y

\* p occurs in s at position i
occursAt(s, p, i) ==
  /\ i >= 1
  /\ i + Len(p) - 1 <= Len(s)
  /\ \A k \in 1..Len(p) : s[i + k - 1] = p[k]

\* p occurs in s at position i, letter case ignored (the i flag); p is lowercase
occursAtIgnoreCase(s, p, i) ==
  /\ i >= 1
  /\ i + Len(p) - 1 <= Len(s)
  /\ \A k \in 1..Len(p) : toLowerChar(s[i + k - 1]) = p[k]

\* String.prototype.startsWith
startsWith(s, p) == occursAt(s, p, 1)

\* the least of a set of positions, 0 when there is none
firstOf(at) == IF at = {} THEN 0 ELSE Minimum(at)

\* the first position >= from at which p occurs in s, 0 when there is none
indexOfFrom(s, p, from) ==
  firstOf({i \in from..(Len(s) - Len(p) + 1) : occursAt(s, p, i)})

\* String.prototype.includes
includes(s, p) == indexOfFrom(s, p, 1) # 0

\* String.prototype.substring on positions: the characters from..to
substring(s, from, to) == IF from > to THEN <<>> ELSE SubSeq(s, from, to)

Maximum(S) == CHOOSE x \in S : \A y \in S : y <= x

\* s from the first to the last of its positions `inked`
between(s, inked) ==
  IF inked = {} THEN <<>> ELSE SubSeq(s, Minimum(inked), Maximum(inked))

\* String.prototype.trim
trim(s) == between(s, {i \in 1..Len(s) : ~isWhitespace(s[i])})

RECURSIVE splitFrom(_, _)
\* the pieces of s from position `from` when the next newline is at nl
splitAt(s, from, nl) ==
  IF nl = 0 THEN <<substring(s, from, Len(s))>>
  ELSE <<substring(s, from, nl - 1)>> \o splitFrom(s, nl + 1)

splitFrom(s, from) == splitAt(s, from, indexOfFrom(s, <<NL>>, from))

\* String.prototype.split('\n')
split(s) == splitFrom(s, 1)

RECURSIVE join(_, _)
\* Array.prototype.join
join(lines, sep) ==
  IF Len(lines) = 0 THEN <<>>
  ELSE IF Len(lines) = 1 THEN lines[1]
  ELSE lines[1] \o sep \o join(Tail(lines), sep)

\* the length of the run of characters satisfying a class that starts at i
RECURSIVE wordRun(_, _)
wordRun(s, i) == IF i <= Len(s) /\ isWordChar(s[i]) THEN 1 + wordRun(s, i + 1) ELSE 0

RECURSIVE spaceRun(_, _)
spaceRun(s, i) == IF i <= Len(s) /\ isWhitespace(s[i]) THEN 1 + spaceRun(s, i + 1) ELSE 0

RECURSIVE hashRun(_, _)
hashRun(s, i) == IF i <= Len(s) /\ s[i] = "#" THEN 1 + hashRun(s, i + 1) ELSE 0

\* the characters U+0060, U+2713 and U+2192, which a string of this module
\* cannot spell
Backtick == "backtick"

CheckMark == "check mark"

Arrow == "arrow"

Fence == <<Backtick, Backtick, Backtick>>

\* the alternatives of USAGE_SECTION_PATTERNS, in lowercase
UsagePhrases ==
  { <<"u", "s", "a", "g", "e">>,
    <<"u", "s", "e">>,
    <<"u", "s", "i", "n", "g">>,
    <<"h", "o", "w", " ", "t", "o", " ", "u", "s", "e">>,
    <<"g", "e", "t", "t", "i", "n", "g", " ", "s", "t", "a", "r", "t", "e", "d">>,
    <<"q", "u", "i", "c", "k", " ", "s", "t", "a", "r", "t">>,
    <<"e", "x", "a", "m", "p", "l", "e">>,
    <<"e", "x", "a", "m", "p", "l", "e", "s">>,
    <<"b", "a", "s", "i", "c", " ", "u", "s", "a", "g", "e">>,
    <<"a", "p", "i", " ", "u", "s", "a", "g", "e">>,
    <<"t", "u", "t", "o", "r", "i", "a", "l">>,
    <<"i", "n", "s", "t", "a", "l", "l", "a", "t", "i", "o", "n", " ", "a", "n", "d", " ", "u", "s", "a", "g", "e">>,
    <<"s", "e", "t", "u", "p", " ", "a", "n", "d", " ", "u", "s", "a", "g", "e">> }

\* ^#{1,6}\s*(phrase) on a line that starts with `hashes` # characters
usageHeaderAfter(line, hashes) ==
  /\ hashes \in 1..6
  /\ \E phrase \in UsagePhrases :
       occursAtIgnoreCase(line, phrase, hashes + 1 + spaceRun(line, hashes + 1))

\* USAGE_SECTION_PATTERNS.some(pattern => pattern.test(line)):
\* ^#{1,6}\s*(phrase), letter case ignored, anything may follow the phrase
isUsageHeader(line) == usageHeaderAfter(line, hashRun(line, 1))

\* ^#{1,6}\s on a line that starts with `hashes` # characters
headerAfter(line, hashes) ==
  /\ hashes \in 1..6
  /\ hashes + 1 <= Len(line)
  /\ isWhitespace(line[hashes + 1])

\* line.match(/^#{1,6}\s/)
isHeader(line) == headerAfter(line, hashRun(line, 1))

\* the line without the `hashes` # characters ^#{1,6} matched and the
\* whitespace after them, trimmed
titleAfter(line, hashes) ==
  IF hashes = 0 THEN trim(line)
  ELSE trim(substring(line, hashes + 1 + spaceRun(line, hashes + 1), Len(line)))

\* line.replace(/^#{1,6}\s*/, '').trim()
headerTitle(line) ==
  titleAfter(line, IF hashRun(line, 1) > 6 THEN 6 ELSE hashRun(line, 1))

NoSection == [open |-> FALSE]

\* if (content) sections.push({ title, content })
pushSection(sections, title, content) ==
  IF content # <<>>
  THEN Append(sections, [title |-> title, content |-> content])
  ELSE sections

\* the section that ends before line `to` joins the sections when its trimmed
\* content is not empty
closeSection(lines, current, to, sections) ==
  pushSection(sections, current.title,
              trim(join(substring(lines, current.startIndex + 1, to - 1), <<NL>>)))

RECURSIVE scanSections(_, _, _, _)
scanSections(lines, i, current, sections) ==
  IF i > Len(lines)
  THEN IF current.open THEN closeSection(lines, current, i, sections) ELSE sections
  ELSE IF isUsageHeader(lines[i])
  THEN scanSections(lines, i + 1,
         [open |-> TRUE, title |-> headerTitle(lines[i]), startIndex |-> i],
         IF current.open THEN closeSection(lines, current, i, sections) ELSE sections)
  ELSE IF current.open /\ isHeader(lines[i])
  THEN scanSections(lines, i + 1, NoSection, closeSection(lines, current, i, sections))
  ELSE scanSections(lines, i + 1, current, sections)

findUsageSections(lines) == scanSections(lines, 1, NoSection, <<>>)

\* languageMap
languageMap ==
  { <<<<"j", "s">>, <<"j", "a", "v", "a", "s", "c", "r", "i", "p", "t">>>>,
    <<<<"t", "s">>, <<"t", "y", "p", "e", "s", "c", "r", "i", "p", "t">>>>,
    <<<<"s", "h">>, <<"b", "a", "s", "h">>>>,
    <<<<"s", "h", "e", "l", "l">>, <<"b", "a", "s", "h">>>>,
    <<<<"z", "s", "h">>, <<"b", "a", "s", "h">>>>,
    <<<<"f", "i", "s", "h">>, <<"b", "a", "s", "h">>>>,
    <<<<"y", "m", "l">>, <<"y", "a", "m", "l">>>>,
    <<<<"m", "d">>, <<"m", "a", "r", "k", "d", "o", "w", "n">>>>,
    <<<<"s", "w", "i", "f", "t">>, <<"s", "w", "i", "f", "t">>>>,
    <<<<"o", "b", "j", "e", "c", "t", "i", "v", "e", "-", "c">>, <<"o", "b", "j", "c">>>>,
    <<<<"o", "b", "j", "e", "c", "t", "i", "v", "e", "c">>, <<"o", "b", "j", "c">>>> }

\* the lowercase names every object literal inherits from Object.prototype
\* that \w+ can spell: languageMap[name] is then a function or an object
InheritedNames == {<<"c", "o", "n", "s", "t", "r", "u", "c", "t", "o", "r">>, <<"_", "_", "p", "r", "o", "t", "o", "_", "_">>}

\* a value that is not a string (a member of Object.prototype)
InheritedMember == <<"Object.prototype member">>

TextLanguage == <<"t", "e", "x", "t">>

\* languageMap[normalized] || normalized || 'text'
languageOf(normalized) ==
  IF \E pair \in languageMap : pair[1] = normalized
  THEN (CHOOSE pair \in languageMap : pair[1] = normalized)[2]
  ELSE IF normalized \in InheritedNames THEN InheritedMember
  ELSE IF normalized # <<>> THEN normalized
  ELSE TextLanguage

normalizeLanguage(language) == languageOf(trim(toLowerCase(language)))

\* CODE_BLOCK_PATTERN matches at position s when the run of word characters
\* after the ``` at s ends at position newline
codeBlockOpensAt(text, s, newline) ==
  /\ occursAt(text, Fence, s)
  /\ newline <= Len(text)
  /\ text[newline] = NL
  /\ indexOfFrom(text, Fence, newline + 1) # 0

\* CODE_BLOCK_PATTERN matches at position s: ``` then a maximal run of word
\* characters, a newline, and the nearest ``` after it
codeBlockMatchesAt(text, s) ==
  codeBlockOpensAt(text, s, s + 3 + wordRun(text, s + 3))

NoMatch == [found |-> FALSE, lastIndex |-> 0]

RECURSIVE firstCodeBlockFrom(_, _)
\* the search goes on after a ``` at which the pattern does not match
firstCodeBlockAt(text, fence) ==
  IF fence = 0 THEN 0
  ELSE IF codeBlockMatchesAt(text, fence) THEN fence
  ELSE firstCodeBlockFrom(text, fence + 1)

\* the leftmost position >= from at which CODE_BLOCK_PATTERN matches, 0 when
\* there is none
firstCodeBlockFrom(text, from) ==
  firstCodeBlockAt(text, indexOfFrom(text, Fence, from))

\* the match array: match.index, match[1], match[2], and the lastIndex the
\* match leaves behind
matchBetween(text, s, newline, close) ==
  [found |-> TRUE,
   index |-> s - 1,
   language |-> substring(text, s + 3, newline - 1),
   body |-> substring(text, newline + 1, close - 1),
   lastIndex |-> close + 2]

matchFrom(text, s, newline) ==
  matchBetween(text, s, newline, indexOfFrom(text, Fence, newline + 1))

matchAt(text, li, s) ==
  IF li > Len(text) \/ s = 0 THEN NoMatch
  ELSE matchFrom(text, s, s + 3 + wordRun(text, s + 3))

\* CODE_BLOCK_PATTERN.exec(text) with the pattern's lastIndex at li: the
\* leftmost match at or after li, and the lastIndex the call leaves behind
exec(text, li) == matchAt(text, li, firstCodeBlockFrom(text, li + 1))

\* if (code) codeBlocks.push({ code, language: normalizeLanguage(language),
\* originalIndex: match.index })
pushCodeBlock(blocks, code, language, index) ==
  IF code # <<>>
  THEN Append(blocks, [code |-> code,
                       language |-> normalizeLanguage(language),
                       originalIndex |-> index])
  ELSE blocks

\* const language = match[1] || 'text'
matchLanguage(match) == IF match.language # <<>> THEN match.language ELSE TextLanguage

RECURSIVE execLoop(_, _, _)
\* the body of the loop for one result of exec
onMatch(text, match, blocks) ==
  IF ~match.found THEN [blocks |-> blocks, lastIndex |-> match.lastIndex]
  ELSE execLoop(text, match.lastIndex,
                pushCodeBlock(blocks, trim(match.body), matchLanguage(match), match.index))

\* while ((match = CODE_BLOCK_PATTERN.exec(text)) !== null) { ... }
execLoop(text, li, blocks) == onMatch(text, exec(text, li), blocks)

\* the loop left after its first match
firstMatchOnly(match) ==
  [blocks |-> IF match.found
              THEN pushCodeBlock(<<>>, trim(match.body), matchLanguage(match), match.index)
              ELSE <<>>,
   lastIndex |-> match.lastIndex]

\* only the first match is taken, and lastIndex is left where exec left it
extractFirstCodeBlock(text, li) == firstMatchOnly(exec(text, li))

\* extractCodeBlocksFromText with CODE_BLOCK_PATTERN.lastIndex at li when it is
\* called: the blocks it returns and the lastIndex it leaves behind
extractCodeBlocksFromText(text, li) == execLoop(text, 0, <<>>)

\* description?: undefined
NoDescription == <<>>

RECURSIVE descriptionLines(_, _, _)
\* the body of the loop for line i, trimmed
onLine(lines, i, collected, trimmed) ==
  IF trimmed = <<>> THEN descriptionLines(lines, i - 1, collected)
  ELSE IF isHeader(trimmed) \/ startsWith(trimmed, Fence) THEN collected
  ELSE IF Len(collected) + 1 >= 3 THEN <<trimmed>> \o collected
  ELSE descriptionLines(lines, i - 1, <<trimmed>> \o collected)

\* the loop of extractDescriptionForCodeBlock over the lines before the block,
\* last line first
descriptionLines(lines, i, collected) ==
  IF i < 1 THEN collected ELSE onLine(lines, i, collected, trim(lines[i]))

\* description.length > 10 ? description : undefined
longDescription(description) ==
  IF Len(description) > 10 THEN description ELSE NoDescription

descriptionBefore(lines) ==
  longDescription(trim(join(descriptionLines(lines, Len(lines), <<>>), <<" ">>)))

extractDescriptionForCodeBlock(content, codeBlockIndex) ==
  descriptionBefore(split(substring(content, 1, codeBlockIndex)))

DecimalDigits == <<"0", "1", "2", "3", "4", "5", "6", "7", "8", "9">>

RECURSIVE decimal(_)
\* a number inside a template literal
decimal(n) ==
  IF n < 10 THEN <<DecimalDigits[n + 1]>>
  ELSE decimal(n \div 10) \o <<DecimalDigits[(n % 10) + 1]>>

\* every title carries the number of its block
numberedExamples(title, content, codeBlocks) ==
  [index \in 1..Len(codeBlocks) |->
    [title |-> title \o <<" ">> \o decimal(index),
     code |-> codeBlocks[index].code,
     language |-> codeBlocks[index].language,
     description |->
       extractDescriptionForCodeBlock(content, codeBlocks[index].originalIndex)]]

\* codeBlocks.forEach((block, index) => examples.push({ ... }))
blockExamples(title, content, codeBlocks) ==
  [index \in 1..Len(codeBlocks) |->
    [title |-> IF Len(codeBlocks) = 1 THEN title
               ELSE title \o <<" ">> \o decimal(index),
     code |-> codeBlocks[index].code,
     language |-> codeBlocks[index].language,
     description |->
       extractDescriptionForCodeBlock(content, codeBlocks[index].originalIndex)]]

scanExamples(title, content, scan) ==
  [examples |-> blockExamples(title, content, scan.blocks),
   lastIndex |-> scan.lastIndex]

extractExamplesFromSection(title, content, li) ==
  scanExamples(title, content, extractCodeBlocksFromText(content, li))

\* the trimmed line is an import, a comment or blank
isImportOrComment(trimmed) ==
  \/ startsWith(trimmed, <<"i", "m", "p", "o", "r", "t", " ">>)
  \/ startsWith(trimmed, <<"/", "/">>)
  \/ trimmed = <<>>

\* lines.every(line => ...)
onlyImportsOrComments(lines) ==
  \A i \in 1..Len(lines) : isImportOrComment(trim(lines[i]))

\* the tests without the one for '$'
isValidCodeWithPrompt(code) ==
  /\ code # <<>>
  /\ Len(code) >= 10
  /\ ~onlyImportsOrComments(split(code))
  /\ ~includes(code, <<CheckMark>>)
  /\ ~includes(code, <<Arrow>>)

\* the tests of isValidUsageExample on the trimmed code
isValidCode(code) ==
  /\ code # <<>>
  /\ Len(code) >= 10
  /\ ~onlyImportsOrComments(split(code))
  /\ ~includes(code, <<CheckMark>>)
  /\ ~includes(code, <<Arrow>>)
  /\ ~includes(code, <<"$">>)

isValidUsageExample(example) == isValidCode(trim(example.code))

\* example.language.trim() is a TypeError when the language is not a string
cleanThrows(example) == example.language = InheritedMember

cleanUsageExample(example) ==
  [title |-> trim(example.title),
   code |-> trim(example.code),
   language |-> trim(example.language),
   description |-> trim(example.description)]

UsageExampleTitle == <<"U", "s", "a", "g", "e", " ", "E", "x", "a", "m", "p", "l", "e">>

\* the limit of the slice at the end of extractUsageExamples
MaxExamples == 10

\* the last n elements instead of the first n
sliceLast(s, n) == IF Len(s) <= n THEN s ELSE SubSeq(s, Len(s) - n + 1, Len(s))

\* Array.prototype.slice(0, n)
slice(s, n) == IF Len(s) <= n THEN s ELSE SubSeq(s, 1, n)

\* examples.push(...sectionExamples)
pushExamples(examples, found) ==
  [examples |-> examples \o found.examples, lastIndex |-> found.lastIndex]

\* one turn of the loop over the usage sections
afterSection(before, section) ==
  pushExamples(before.examples,
               extractExamplesFromSection(section.title, section.content,
                                          before.lastIndex))

\* for (const section of usageSections) examples.push(...sectionExamples):
\* the examples array and lastIndex after the sections up to the i-th
sectionExamples(sections, li) ==
  LET after[i \in 0..Len(sections)] ==
        IF i = 0 THEN [examples |-> <<>>, lastIndex |-> li]
        ELSE afterSection(after[i - 1], sections[i])
  IN after[Len(sections)]

\* the argument is a string, not null or undefined
isString(content) == content.kind = "string"

\* what the catch of an operation returns, and the lastIndex left behind
caught(result, li) ==
  [result |-> result, lastIndex |-> li, faulted |-> TRUE,
   candidates |-> <<>>, fallback |-> FALSE]

\* examples.push(...allCodeBlocks.map(block => ({ title: 'Usage Example', ... })))
fallbackExamples(scan) ==
  [examples |->
     [i \in 1..Len(scan.blocks) |->
       [title |-> UsageExampleTitle,
        code |-> scan.blocks[i].code,
        language |-> scan.blocks[i].language,
        description |-> NoDescription]],
   lastIndex |-> scan.lastIndex,
   fallback |-> TRUE]

\* if (examples.length === 0) { ... }
orFallback(text, fromSections) ==
  IF Len(fromSections.examples) = 0
  THEN fallbackExamples(extractCodeBlocksFromText(text, fromSections.lastIndex))
  ELSE [examples |-> fromSections.examples,
        lastIndex |-> fromSections.lastIndex,
        fallback |-> FALSE]

\* the examples before the filter: those of the usage sections, else every
\* code block of the document (fallback tells which of the two)
candidateExamples(text, li) ==
  orFallback(text, sectionExamples(findUsageSections(split(text)), li))

\* the example's language is a string
isStringExample(example) == ~cleanThrows(example)

\* the example that cannot be cleaned is left out and the others are returned
cleanedStringExamples(valid) ==
  slice([i \in 1..Len(SelectSeq(valid, isStringExample)) |->
          cleanUsageExample(SelectSeq(valid, isStringExample)[i])], MaxExamples)

\* .map(example => this.cleanUsageExample(example)).slice(0, 10), which throws
\* on an example whose language is not a string
cleanedExamples(valid) ==
  IF \E i \in 1..Len(valid) : cleanThrows(valid[i]) THEN <<>>
  ELSE slice([i \in 1..Len(valid) |-> cleanUsageExample(valid[i])], MaxExamples)

filteredExamples(candidates, valid) ==
  [result |-> cleanedExamples(valid),
   lastIndex |-> candidates.lastIndex,
   faulted |-> \E i \in 1..Len(valid) : cleanThrows(valid[i]),
   candidates |-> candidates.examples,
   fallback |-> candidates.fallback]

validExamples(candidates) ==
  filteredExamples(candidates, SelectSeq(candidates.examples, isValidUsageExample))

\* extractUsageExamples with CODE_BLOCK_PATTERN.lastIndex at li when called:
\* what it returns, the lastIndex it leaves behind, whether its catch ran, and
\* its examples array as it stood before the filter
extractUsageExamples(content, li) ==
  IF ~isString(content) THEN caught(<<>>, li)
  ELSE validExamples(candidateExamples(content.text, li))

\* the first position >= from at which p occurs in s with letter case ignored
\* (p is lowercase), 0 when there is none
indexOfIgnoreCaseFrom(s, p, from) ==
  LET at == {i \in from..(Len(s) - Len(p) + 1) : occursAtIgnoreCase(s, p, i)}
  IN IF at = {} THEN 0 ELSE Minimum(at)

\* the position of the newline that ends the opening fence of the SPM pattern
\* when the fence is at s: ``` or ```swift, then the newline
spmFenceNewline(text, s) ==
  IF occursAtIgnoreCase(text, <<"s", "w", "i", "f", "t">>, s + 3) THEN s + 8 ELSE s + 3

\* the position of the closing fence when
\* /```(?:swift)?\n[\s\S]*?\.package\([\s\S]*?\)[\s\S]*?```/gi matches at s,
\* 0 when it does not: the nearest .package( after the opening fence, the
\* nearest ) after that and the nearest ``` after that
spmCloseAt(text, s) ==
  LET newline == spmFenceNewline(text, s)
      package == indexOfIgnoreCaseFrom(text, <<".", "p", "a", "c", "k", "a", "g", "e", "(">>, newline + 1)
      paren == IF package = 0 THEN 0 ELSE indexOfFrom(text, <<")">>, package + 9)
  IN IF /\ occursAt(text, Fence, s)
        /\ newline <= Len(text)
        /\ text[newline] = NL
        /\ paren # 0
     THEN indexOfFrom(text, Fence, paren + 1)
     ELSE 0

\* spmMatches[0].replace(/```\w*\n/, '').replace(/```$/, '').trim(): the match
\* begins with its opening fence line and ends with its closing fence
spmSnippet(text, s) ==
  trim(substring(text, spmFenceNewline(text, s) + 1, spmCloseAt(text, s) - 1))

DoubleQuote == "\""

\* the position of the closing quote when /github\s+"[^"]+\/[^"]+"/gi matches
\* at s, 0 when it does not
carthageCloseAt(text, s) ==
  LET open == s + 6 + spaceRun(text, s + 6)
      close == indexOfFrom(text, <<DoubleQuote>>, open + 1)
  IN IF /\ occursAtIgnoreCase(text, <<"g", "i", "t", "h", "u", "b">>, s)
        /\ spaceRun(text, s + 6) >= 1
        /\ open <= Len(text)
        /\ text[open] = DoubleQuote
        /\ close # 0
        /\ \E slash \in (open + 2)..(close - 2) : text[slash] = "/"
     THEN close
     ELSE 0

\* the position of the closing quote when /pod\s+['"][^'"]+['"]/gi matches at
\* s, 0 when it does not
cocoapodsCloseAt(text, s) ==
  LET open == s + 3 + spaceRun(text, s + 3)
      quotes == {i \in (open + 1)..Len(text) : text[i] \in {"'", DoubleQuote}}
  IN IF /\ occursAtIgnoreCase(text, <<"p", "o", "d">>, s)
        /\ spaceRun(text, s + 3) >= 1
        /\ open <= Len(text)
        /\ text[open] \in {"'", DoubleQuote}
        /\ quotes # {}
        /\ Minimum(quotes) >= open + 2
     THEN Minimum(quotes)
     ELSE 0

\* String.prototype.match with a /g pattern, element [0]: where the leftmost
\* match starts, 0 when match returns null
firstSpmMatch(text) ==
  LET at == {s \in 1..Len(text) : spmCloseAt(text, s) # 0}
  IN IF at = {} THEN 0 ELSE Minimum(at)

\* where the last match starts instead of the first
lastCarthageMatch(text) ==
  IF \E s \in 1..Len(text) : carthageCloseAt(text, s) # 0
  THEN Maximum({s \in 1..Len(text) : carthageCloseAt(text, s) # 0})
  ELSE 0

firstCarthageMatch(text) ==
  LET at == {s \in 1..Len(text) : carthageCloseAt(text, s) # 0}
  IN IF at = {} THEN 0 ELSE Minimum(at)

firstCocoapodsMatch(text) ==
  LET at == {s \in 1..Len(text) : cocoapodsCloseAt(text, s) # 0}
  IN IF at = {} THEN 0 ELSE Minimum(at)

\* the installationInfo object: a function from the keys that were assigned
installationFields(text) ==
  { f \in {"spm", "carthage", "cocoapods"} :
      \/ f = "spm" /\ firstSpmMatch(text) # 0
      \/ f = "carthage" /\ firstCarthageMatch(text) # 0
      \/ f = "cocoapods" /\ firstCocoapodsMatch(text) # 0 }

extractInstallationInfo(content, li) ==
  IF ~isString(content) THEN caught(<<>>, li)
  ELSE LET text == content.text
       IN [result |->
             [f \in installationFields(text) |->
               IF f = "spm" THEN spmSnippet(text, firstSpmMatch(text))
               ELSE IF f = "carthage"
               THEN substring(text, firstCarthageMatch(text),
                              carthageCloseAt(text, firstCarthageMatch(text)))
               ELSE substring(text, firstCocoapodsMatch(text),
                              cocoapodsCloseAt(text, firstCocoapodsMatch(text)))],
           lastIndex |-> li,
           faulted |-> FALSE]

\* swiftKeywords
swiftKeywords ==
  <<<<"s", "w", "i", "f", "t">>,
     <<"i", "o", "s">>,
     <<"m", "a", "c", "o", "s">>,
     <<"t", "v", "o", "s">>,
     <<"w", "a", "t", "c", "h", "o", "s">>,
     <<"x", "c", "o", "d", "e">>,
     <<"u", "i", "k", "i", "t">>,
     <<"s", "w", "i", "f", "t", "u", "i">>,
     <<"f", "o", "u", "n", "d", "a", "t", "i", "o", "n">>,
     <<"c", "o", "r", "e", " ", "d", "a", "t", "a">>,
     <<"c", "o", "m", "b", "i", "n", "e">>,
     <<"a", "s", "y", "n", "c">>,
     <<"a", "w", "a", "i", "t">>,
     <<"a", "c", "t", "o", "r">>,
     <<"c", "o", "n", "c", "u", "r", "r", "e", "n", "c", "y">>,
     <<"n", "e", "t", "w", "o", "r", "k", "i", "n", "g">>,
     <<"j", "s", "o", "n">>,
     <<"r", "e", "s", "t">>,
     <<"a", "p", "i">>,
     <<"h", "t", "t", "p">>,
     <<"u", "r", "l">>,
     <<"s", "e", "s", "s", "i", "o", "n">>,
     <<"a", "n", "i", "m", "a", "t", "i", "o", "n">>,
     <<"u", "i">>,
     <<"l", "a", "y", "o", "u", "t">>,
     <<"c", "o", "n", "s", "t", "r", "a", "i", "n", "t">>,
     <<"a", "u", "t", "o", "l", "a", "y", "o", "u", "t">>,
     <<"t", "e", "s", "t">>,
     <<"t", "e", "s", "t", "i", "n", "g">>,
     <<"u", "n", "i", "t", " ", "t", "e", "s", "t">>,
     <<"m", "o", "c", "k">>,
     <<"s", "t", "u", "b">>>>

\* the position of the last character of the line that holds position i
lineEnd(text, i) ==
  LET nl == indexOfFrom(text, <<NL>>, i)
  IN IF nl = 0 THEN Len(text) ELSE nl - 1

\* position s starts a line (^ with the m flag)
isLineStart(text, s) == s = 1 \/ text[s - 1] = NL

\* where the text captured by /^#{1,6}\s+(.+)$/gm begins when the pattern
\* matches at s with a capture that is not blank, 0 otherwise: the hashes, the
\* whole run of whitespace (newlines included) and the rest of that line
headerTextAt(text, s) ==
  LET hashes == hashRun(text, s)
      spaces == spaceRun(text, s + hashes)
  IN IF /\ isLineStart(text, s)
        /\ hashes \in 1..6
        /\ spaces >= 1
        /\ s + hashes + spaces <= Len(text)
     THEN s + hashes + spaces
     ELSE 0

RECURSIVE headerTexts(_, _)
\* header.replace(/^#{1,6}\s+/, '').toLowerCase() of every match of the header
\* pattern at or after position from, in order
headerTexts(text, from) ==
  LET at == {s \in from..Len(text) : headerTextAt(text, s) # 0}
  IN IF at = {} THEN <<>>
     ELSE LET begin == headerTextAt(text, Minimum(at))
              end == lineEnd(text, begin)
          IN <<toLowerCase(substring(text, begin, end))>> \o headerTexts(text, end + 1)

RECURSIVE addAll(_, _)
\* Set.prototype.add of each element in turn; the Set keeps insertion order
addAll(set, elements) ==
  IF elements = <<>> THEN set
  ELSE addAll(IF \E i \in 1..Len(set) : set[i] = Head(elements)
              THEN set ELSE Append(set, Head(elements)),
              Tail(elements))

\* the vocabulary terms that lowerContent includes
vocabularyMatches(text) ==
  LET lowerContent == toLowerCase(text)
      found(keyword) == includes(lowerContent, toLowerCase(keyword))
  IN SelectSeq(swiftKeywords, found)

\* a header text of 20 characters counts too
isKeywordLengthUpTo20(headerText) == Len(headerText) > 2 /\ Len(headerText) <= 20

\* headerText.length > 2 && headerText.length < 20
isKeywordLength(headerText) == Len(headerText) > 2 /\ Len(headerText) < 20

\* the limit of the slice at the end of extractKeywords
MaxKeywords == 10

extractKeywords(content, li) ==
  IF ~isString(content) THEN caught(<<>>, li)
  ELSE LET text == content.text
           keywords == addAll(addAll(<<>>, vocabularyMatches(text)),
                              SelectSeq(headerTexts(text, 1), isKeywordLength))
       IN [result |-> slice(keywords, MaxKeywords),
           lastIndex |-> li,
           faulted |-> FALSE]

(***************************************************************************)
(* The documents handed to the ReadmeParser.  A document is written as     *)
(* the sequence of its markdown items: headings, fenced code blocks, lines *)
(* of text and, for malformed markdown, a fence that is never closed.      *)
(***************************************************************************)
Heading(level, text) == [kind |-> "heading", level |-> level, text |-> text]

CodeBlock(tag, body) == [kind |-> "block", tag |-> tag, body |-> body]

Text(line) == [kind |-> "text", line |-> line]

UnclosedFence(tag, body) == [kind |-> "unclosed", tag |-> tag, body |-> body]

RECURSIVE hashMarks(_)
hashMarks(level) == IF level = 0 THEN <<>> ELSE <<"#">> \o hashMarks(level - 1)

\* the lines of one item as they stand in the README
itemLines(item) ==
  IF item.kind = "heading" THEN <<hashMarks(item.level) \o <<" ">> \o item.text>>
  ELSE IF item.kind = "block" THEN <<Fence \o item.tag>> \o item.body \o <<Fence>>
  ELSE IF item.kind = "unclosed" THEN <<Fence \o item.tag>> \o item.body
  ELSE <<item.line>>

RECURSIVE renderItems(_)
\* the README text: the items in order, a blank line after each
renderItems(items) ==
  IF items = <<>> THEN <<>>
  ELSE join(itemLines(Head(items)), <<NL>>) \o <<NL, NL>> \o renderItems(Tail(items))

\* the argument of a parser call: a README text, or null
NullContent == [kind |-> "null"]

stringContent(items) == [kind |-> "string", items |-> items, text |-> renderItems(items)]

(***************************************************************************)
(* The items the documents of the model are made of.                       *)
(***************************************************************************)
\* "Usage", "Basic Usage", "Advanced Usage", "Getting Started"
UsageText == <<"U", "s", "a", "g", "e">>

BasicUsageText == <<"B", "a", "s", "i", "c", " ", "U", "s", "a", "g", "e">>

AdvancedUsageText == <<"A", "d", "v", "a", "n", "c", "e", "d", " ", "U", "s", "a", "g", "e">>

GettingStartedText == <<"G", "e", "t", "t", "i", "n", "g", " ", "S", "t", "a", "r", "t", "e", "d">>

\* "Installation", "Swift Package"
InstallationText == <<"I", "n", "s", "t", "a", "l", "l", "a", "t", "i", "o", "n">>

PackageText == <<"S", "w", "i", "f", "t", " ", "P", "a", "c", "k", "a", "g", "e">>

\* the headings the documents name as the place of their usage examples
UsageTopics == {UsageText, BasicUsageText, AdvancedUsageText, GettingStartedText}

\* language tags: swift, bash, none, and a name every object inherits
SwiftTag == <<"s", "w", "i", "f", "t">>

BashTag == <<"b", "a", "s", "h">>

NoTag == <<>>

ConstructorTag == <<"c", "o", "n", "s", "t", "r", "u", "c", "t", "o", "r">>

\* "let x = Manager()" and "print(value + 1)"
ManagerCode == <<<<"l", "e", "t", " ", "x", " ", "=", " ", "M", "a", "n", "a", "g", "e", "r", "(", ")">>>>

PrintCode == <<<<"p", "r", "i", "n", "t", "(", "v", "a", "l", "u", "e", " ", "+", " ", "1", ")">>>>

\* "import Foundation", then a blank line and a comment
ImportCode == <<<<"i", "m", "p", "o", "r", "t", " ", "F", "o", "u", "n", "d", "a", "t", "i", "o", "n">>, <<>>, <<"/", "/", " ", "J", "u", "s", "t", " ", "a", " ", "c", "o", "m", "m", "e", "n", "t">>>>

\* "x = 1"
ShortCode == <<<<"x", " ", "=", " ", "1">>>>

\* "$ swift build"
PromptCode == <<<<"$", " ", "s", "w", "i", "f", "t", " ", "b", "u", "i", "l", "d">>>>

\* a check mark, then " tests passed"
CheckMarkCode == <<<<CheckMark>> \o <<" ", "t", "e", "s", "t", "s", " ", "p", "a", "s", "s", "e", "d">>>>

\* "build ", an arrow, " done"
ArrowCode == <<<<"b", "u", "i", "l", "d", " ">> \o <<Arrow>> \o <<" ", "d", "o", "n", "e">>>>

EmptyCode == <<>>

\* ".package(url: "o/r")" inside a dependencies list
PackageCode == <<<<"d", "e", "p", "e", "n", "d", "e", "n", "c", "i", "e", "s", ":", " ", "[">>, <<" ", " ", ".", "p", "a", "c", "k", "a", "g", "e", "(", "u", "r", "l", ":", " ", "\"", "o", "/", "r", "\"", ")">>, <<"]">>>>

\* "github "owner/repo" ~> 1.0" and "github "o/r""
CartfileLine == <<"g", "i", "t", "h", "u", "b", " ", "\"", "o", "w", "n", "e", "r", "/", "r", "e", "p", "o", "\"", " ", "~", ">", " ", "1", ".", "0">>

OtherCartfileLine == <<"g", "i", "t", "h", "u", "b", " ", "\"", "o", "/", "r", "\"">>

\* "pod 'Alamofire', '~> 5.0'" and "pod "Moya""
PodfileLine == <<"p", "o", "d", " ", "'", "A", "l", "a", "m", "o", "f", "i", "r", "e", "'", ",", " ", "'", "~", ">", " ", "5", ".", "0", "'">>

OtherPodfileLine == <<"p", "o", "d", " ", "\"", "M", "o", "y", "a", "\"">>

\* ".package(path: "../p")"
OtherPackageCode == <<<<".", "p", "a", "c", "k", "a", "g", "e", "(", "p", "a", "t", "h", ":", " ", "\"", ".", ".", "/", "p", "\"", ")">>>>

\* "swift ios macos tvos xcode json http"
TermsLine == <<"s", "w", "i", "f", "t", " ", "i", "o", "s", " ", "m", "a", "c", "o", "s", " ", "t", "v", "o", "s", " ", "x", "c", "o", "d", "e", " ", "j", "s", "o", "n", " ", "h", "t", "t", "p">>

\* heading texts of 2, 3, 7, 19 and 20 characters
GoText == <<"G", "o">>

ApiText == <<"A", "P", "I">>

TestingText == <<"T", "e", "s", "t", "i", "n", "g">>

GuidesText == <<"C", "o", "n", "t", "r", "i", "b", "u", "t", "i", "o", "n", " ", "G", "u", "i", "d", "e", "s">>

TipsText == <<"T", "r", "o", "u", "b", "l", "e", "s", "h", "o", "o", "t", "i", "n", "g", " ", "T", "i", "p", "s">>

\* "Here is how to call this library:"
ProseLine == <<"H", "e", "r", "e", " ", "i", "s", " ", "h", "o", "w", " ", "t", "o", " ", "c", "a", "l", "l", " ", "t", "h", "i", "s", " ", "l", "i", "b", "r", "a", "r", "y", ":">>

\* "A networking library for iOS"
TopicLine == <<"A", " ", "n", "e", "t", "w", "o", "r", "k", "i", "n", "g", " ", "l", "i", "b", "r", "a", "r", "y", " ", "f", "o", "r", " ", "i", "O", "S">>

(***************************************************************************)
(* Bounds of the documents.                                                *)
(***************************************************************************)
\* most items of a document made of arbitrary items
MaxItems == 2

\* most usage sections of a document made of sections with one example each
MaxTopics == 3

\* most code blocks of a document made of one long run of examples
MaxBlocks == 12

\* "let v<i> = Manager()"
numberedCode(i) == <<<<"l", "e", "t", " ", "v">> \o decimal(i) \o <<" ", "=", " ", "M", "a", "n", "a", "g", "e", "r", "(", ")">>>>

UsageHeadings == {Heading(2, text) : text \in UsageTopics \cup {InstallationText}}

UsageBlocks ==
  { CodeBlock(SwiftTag, ManagerCode),
    CodeBlock(NoTag, PrintCode),
    CodeBlock(SwiftTag, ImportCode),
    CodeBlock(SwiftTag, ShortCode),
    CodeBlock(BashTag, PromptCode),
    CodeBlock(NoTag, CheckMarkCode),
    CodeBlock(NoTag, ArrowCode),
    CodeBlock(SwiftTag, EmptyCode),
    CodeBlock(ConstructorTag, ManagerCode) }

UsageFillers == {Text(ProseLine), UnclosedFence(SwiftTag, ManagerCode)}

ShortItems ==
  { Heading(2, UsageText),
    Heading(2, AdvancedUsageText),
    Heading(2, InstallationText),
    CodeBlock(SwiftTag, ManagerCode),
    CodeBlock(SwiftTag, ImportCode),
    CodeBlock(ConstructorTag, ManagerCode),
    Text(ProseLine),
    UnclosedFence(SwiftTag, ManagerCode) }

\* every document of at most MaxItems of these items
ShortDocuments == UNION {[1..n -> ShortItems] : n \in 0..MaxItems}

\* one heading and two items under it
SectionDocuments ==
  { <<Heading(2, text), first, second>> :
      text \in {UsageText, AdvancedUsageText},
      first \in UsageBlocks \cup UsageFillers,
      second \in UsageBlocks \cup UsageFillers }

\* a title and MaxTopics usage sections, each with one valid example
TopicDocuments ==
  { <<Heading(1, PackageText)>> \o
      [i \in 1..(2 * MaxTopics) |->
         IF i % 2 = 1 THEN Heading(2, topics[(i + 1) \div 2])
         ELSE CodeBlock(SwiftTag, numberedCode(i \div 2))] :
      topics \in [1..MaxTopics -> UsageTopics] }

\* up to MaxBlocks valid examples, under a Usage heading or under none, and
\* with a block of imports among them or not
RunDocuments ==
  { heading \o [i \in 1..(k + extra) |->
                  IF extra = 1 /\ i = 2 THEN CodeBlock(SwiftTag, ImportCode)
                  ELSE CodeBlock(SwiftTag, numberedCode(IF extra = 1 /\ i > 2 THEN i - 1 ELSE i))] :
      heading \in {<<>>, <<Heading(2, UsageText)>>},
      k \in 9..MaxBlocks,
      extra \in {0, 1} }

UsageDocuments == ShortDocuments \cup SectionDocuments \cup TopicDocuments \cup RunDocuments

\* most items of a document made of installation items
MaxInstallItems == 2

\* most items of a document made of keyword items
MaxKeywordItems == 2

InstallItems ==
  { CodeBlock(SwiftTag, PackageCode),
    CodeBlock(SwiftTag, OtherPackageCode),
    CodeBlock(NoTag, PackageCode),
    CodeBlock(BashTag, PackageCode),
    CodeBlock(SwiftTag, ManagerCode),
    Text(CartfileLine),
    Text(OtherCartfileLine),
    Text(PodfileLine),
    Text(OtherPodfileLine),
    Text(ProseLine),
    Heading(2, InstallationText) }

InstallDocuments == UNION {[1..n -> InstallItems] : n \in 0..MaxInstallItems}

KeywordHeadings ==
  { Heading(1, GoText),
    Heading(2, ApiText),
    Heading(2, InstallationText),
    Heading(3, TestingText),
    Heading(2, GuidesText),
    Heading(2, TipsText) }

KeywordItems == KeywordHeadings \cup {Text(TermsLine), Text(TopicLine)}

\* the documents of at most MaxKeywordItems keyword items, and those with
\* both lines of terms and two headings
KeywordDocuments ==
  UNION {[1..n -> KeywordItems] : n \in 0..MaxKeywordItems}
    \cup { <<Text(TermsLine), Text(TopicLine), first, second>> :
             first \in KeywordHeadings, second \in KeywordHeadings }

(***************************************************************************)
(* SpecParser: one document, and the three operations of the ReadmeParser  *)
(* applied to it.                                                          *)
(***************************************************************************)
Documents == UsageDocuments \cup InstallDocuments \cup KeywordDocuments

InitParser ==
  /\ cache = <<>>
  /\ maxSize = DefaultMaxSize
  /\ defaultTtl = DefaultTtlSeconds
  /\ now = 0
  /\ last = NoOp
  /\ env = NoEnv
  /\ mgr = NoManager
  /\ call = NoCall
  /\ retry = NoRequest
  /\ doc \in {stringContent(items) : items \in Documents} \cup {NullContent}
  /\ lastIndex = 0
  /\ parsed = NoParse
  /\ history = NoHistory
  /\ LookupIdle

\* the call that was the last one joins the history
remember(calls, made) == [older |-> calls.newer, newer |-> made]

ExtractUsageExamples ==
  LET out == extractUsageExamples(doc, lastIndex)
  IN /\ parsed' = [op |-> "extractUsageExamples",
                   content |-> doc,
                   result |-> out.result,
                   faulted |-> out.faulted,
                   candidates |-> out.candidates,
                   fallback |-> out.fallback]
     /\ lastIndex' = out.lastIndex
     /\ history' = remember(history, parsed)
     /\ UNCHANGED <<partitionVars, now, last, managerVars, call, retry, lookupVars, doc>>

ExtractInstallationInfo ==
  LET out == extractInstallationInfo(doc, lastIndex)
  IN /\ parsed' = [op |-> "extractInstallationInfo",
                   content |-> doc,
                   result |-> out.result,
                   faulted |-> out.faulted]
     /\ lastIndex' = out.lastIndex
     /\ history' = remember(history, parsed)
     /\ UNCHANGED <<partitionVars, now, last, managerVars, call, retry, lookupVars, doc>>

ExtractKeywords ==
  LET out == extractKeywords(doc, lastIndex)
  IN /\ parsed' = [op |-> "extractKeywords",
                   content |-> doc,
                   result |-> out.result,
                   faulted |-> out.faulted]
     /\ lastIndex' = out.lastIndex
     /\ history' = remember(history, parsed)
     /\ UNCHANGED <<partitionVars, now, last, managerVars, call, retry, lookupVars, doc>>

\* one call on the document
NextParser ==
  /\ parsed = NoParse
  /\ \/ ExtractUsageExamples
     \/ ExtractInstallationInfo
     \/ ExtractKeywords

SpecParser == InitParser /\ [][NextParser]_vars

(***************************************************************************)
(* SpecParserCalls: a run of calls of the three operations on changing     *)
(* documents, all sharing the one static CODE_BLOCK_PATTERN.               *)
(***************************************************************************)
CallDocuments ==
  { <<Heading(2, UsageText), CodeBlock(SwiftTag, ManagerCode), CodeBlock(NoTag, PackageCode)>>,
    <<Heading(3, TestingText), Text(CartfileLine), CodeBlock(BashTag, PrintCode)>> }

InitParserCalls ==
  /\ cache = <<>>
  /\ maxSize = DefaultMaxSize
  /\ defaultTtl = DefaultTtlSeconds
  /\ now = 0
  /\ last = NoOp
  /\ env = NoEnv
  /\ mgr = NoManager
  /\ call = NoCall
  /\ retry = NoRequest
  /\ doc \in {stringContent(items) : items \in CallDocuments}
  /\ lastIndex = 0
  /\ parsed = NoParse
  /\ history = NoHistory
  /\ LookupIdle

\* the next call is handed another README
NextDocument ==
  /\ doc' \in {stringContent(items) : items \in CallDocuments} \ {doc}
  /\ UNCHANGED <<partitionVars, now, last, managerVars, call, retry, lookupVars,
                 lastIndex, parsed, history>>

NextParserCalls ==
  \/ ExtractUsageExamples
  \/ ExtractInstallationInfo
  \/ ExtractKeywords
  \/ NextDocument

SpecParserCalls == InitParserCalls /\ [][NextParserCalls]_vars

\* an earlier call of the same operation on the same content
sameCall(earlier, later) ==
  /\ earlier.op # "none"
  /\ earlier.op = later.op
  /\ earlier.content = later.content

\* C11: two calls of one of extractUsageExamples, extractInstallationInfo and
\* extractKeywords with the same input return identical output, whatever
\* other calls were made before them or between them
SameInputSameOutput ==
  /\ sameCall(history.newer, parsed) => history.newer.result = parsed.result
  /\ sameCall(history.older, parsed) => history.older.result = parsed.result

\* the same operation is called on the same README, which has examples, with
\* a call of another operation on another README between the two calls
SameInputSameOutputWitness ==
  /\ sameCall(history.older, parsed)
  /\ parsed.op = "extractUsageExamples"
  /\ Len(parsed.result) = 2
  /\ history.newer.op = "extractInstallationInfo"
  /\ history.newer.content # parsed.content
  /\ "carthage" \in DOMAIN history.newer.result

(***************************************************************************)
(* The claims about the ReadmeParser, each about the one call SpecParser   *)
(* makes on its document.                                                  *)
(***************************************************************************)
\* the empty result of the operation: [] for the two lists, {} for the record
isEmptyResult(made) ==
  IF made.op = "extractInstallationInfo" THEN DOMAIN made.result = {}
  ELSE made.result = <<>>

\* C12: none of extractUsageExamples, extractInstallationInfo and
\* extractKeywords lets an exception reach its caller: a call in which a fault
\* occurred (the content is not a string, or an example cannot be cleaned)
\* returns the empty result of its operation
FaultsYieldEmptyResult ==
  (parsed.op # "none" /\ parsed.faulted) => isEmptyResult(parsed)

\* a fault inside extractUsageExamples on a README that has candidate examples
FaultsYieldEmptyResultWitness ==
  /\ parsed.op = "extractUsageExamples"
  /\ parsed.faulted
  /\ isString(parsed.content)
  /\ Len(parsed.candidates) = 2
  /\ parsed.result = <<>>

\* a call of extractUsageExamples that ran to its end
usageCall == parsed.op = "extractUsageExamples" /\ ~parsed.faulted

\* the items of the README of the call
items == parsed.content.items

isBlock(item) == item.kind = "block"

\* the code of a fenced block as written in the README, without the blank
\* space around it
blockCode(item) == trim(join(item.body, <<NL>>))

\* the candidate examples of the call that pass the validity filter
validCandidates == SelectSeq(parsed.candidates, isValidUsageExample)

\* the fenced blocks of the README whose code passes the validity filter, in
\* document order
isValidBlock(item) == isBlock(item) /\ isValidCode(blockCode(item))

validBlocks == SelectSeq(items, isValidBlock)

\* C13: extractUsageExamples returns at most 10 examples, and when more than
\* 10 candidates pass the validity filter it returns the first 10 of them, in
\* the order in which their blocks stand in the document
AtMostTenExamples ==
  usageCall =>
    /\ Len(parsed.result) <= 10
    /\ Len(validCandidates) > 10 =>
         /\ Len(parsed.result) = 10
         /\ \A i \in 1..10 :
              /\ parsed.result[i].code = validCandidates[i].code
              /\ parsed.result[i].title = validCandidates[i].title
              /\ parsed.result[i].code = blockCode(validBlocks[i])

\* more than 11 valid blocks and a block of imports under one heading
AtMostTenExamplesWitness ==
  /\ usageCall
  /\ ~parsed.fallback
  /\ Len(validCandidates) > 11
  /\ Len(parsed.candidates) > Len(validCandidates)
  /\ Len(parsed.result) = 10

\* a line of code that is blank, an import statement, or a // comment
isBlankLine(line) == \A i \in 1..Len(line) : isWhitespace(line[i])

isImportLine(line) == startsWith(trim(line), <<"i", "m", "p", "o", "r", "t", " ">>)

isCommentLine(line) == startsWith(trim(line), <<"/", "/">>)

\* what the filter is to reject: no code or less than 10 characters of it,
\* nothing but imports and comments, or a check mark, an arrow or a '$'
isRejectedCode(code) ==
  \/ Len(code) < 10
  \/ \A i \in 1..Len(split(code)) :
       \/ isBlankLine(split(code)[i])
       \/ isImportLine(split(code)[i])
       \/ isCommentLine(split(code)[i])
  \/ \E i \in 1..Len(code) : code[i] \in {CheckMark, Arrow, "$"}

isAcceptable(example) == ~isRejectedCode(example.code)

\* the candidate examples of the call that the filter is to keep
acceptableCandidates == SelectSeq(parsed.candidates, isAcceptable)

\* C14: no example returned by extractUsageExamples has code that is empty or
\* shorter than 10 characters, code of imports and comments only, or code with
\* a check mark, an arrow or a '$'; and every other candidate is returned, up
\* to the limit of 10
OnlyUsefulExamplesAreKept ==
  usageCall =>
    /\ \A i \in 1..Len(parsed.result) : ~isRejectedCode(parsed.result[i].code)
    /\ Len(parsed.result) = IF Len(acceptableCandidates) > 10 THEN 10
                            ELSE Len(acceptableCandidates)
    /\ \A i \in 1..Len(parsed.result) :
         parsed.result[i].code = acceptableCandidates[i].code

\* a section with a shell transcript, which is dropped, and an example that
\* is kept
OnlyUsefulExamplesAreKeptWitness ==
  /\ usageCall
  /\ Len(parsed.candidates) = 2
  /\ "$" \in Range(parsed.candidates[1].code)
  /\ Len(parsed.result) = 1
  /\ parsed.result[1].code = parsed.candidates[2].code

\* the README has no fence that is never closed
isWellFormed == \A j \in 1..Len(items) : items[j].kind # "unclosed"

isHeading(item) == item.kind = "heading"

\* the heading opens a usage section
isUsageHeading(item) == isHeading(item) /\ isUsageHeader(itemLines(item)[1])

\* the last heading before item j, 0 when there is none: the section of j
headingBefore(j) ==
  IF \E h \in 1..(j - 1) : isHeading(items[h])
  THEN CHOOSE h \in 1..(j - 1) :
         isHeading(items[h]) /\ \A g \in (h + 1)..(j - 1) : ~isHeading(items[g])
  ELSE 0

\* item j is a fenced block of a usage section
inUsageSection(j) ==
  /\ isBlock(items[j])
  /\ headingBefore(j) # 0
  /\ isUsageHeading(items[headingBefore(j)])

hasCode(item) == isBlock(item) /\ blockCode(item) # <<>>

\* the blocks of the section of block j that are counted, and those of them up
\* to j
countedBlocks(j, counted(_)) ==
  {k \in 1..Len(items) : headingBefore(k) = headingBefore(j) /\ counted(items[k])}

\* the title of the example made from block j: the heading's text, with the
\* place of the block among the n counted blocks of its section when n > 1
sectionTitle(j, counted(_)) ==
  IF Cardinality(countedBlocks(j, counted)) = 1
  THEN items[headingBefore(j)].text
  ELSE items[headingBefore(j)].text \o <<" ">> \o
         decimal(Cardinality({k \in countedBlocks(j, counted) : k <= j}))

\* the members of a set of positions in ascending order
ascending(S) ==
  [i \in 1..Cardinality(S) |-> CHOOSE x \in S : Cardinality({y \in S : y < x}) = i - 1]

\* the valid blocks of the usage sections, in document order
sectionBlocks == ascending({j \in 1..Len(items) : inUsageSection(j) /\ isValidBlock(items[j])})

\* the first 10 examples are those made from the valid blocks of the usage
\* sections, titled by their section
titledBySection(counted(_)) ==
  \A i \in 1..Len(sectionBlocks) :
    i <= 10 =>
      /\ i <= Len(parsed.result)
      /\ parsed.result[i].code = blockCode(items[sectionBlocks[i]])
      /\ parsed.result[i].title = sectionTitle(sectionBlocks[i], counted)

\* '## Usage' and one valid swift block give one example, 'Usage', swift
usageAndOneBlock ==
  items = <<Heading(2, UsageText), CodeBlock(SwiftTag, ManagerCode)>> =>
    /\ Len(parsed.result) = 1
    /\ parsed.result[1].title = UsageText
    /\ parsed.result[1].language = SwiftTag

isTopicDocument ==
  /\ Len(items) >= 3
  /\ Len(items) % 2 = 1
  /\ isHeading(items[1])
  /\ \A i \in 1..(Len(items) \div 2) :
       /\ isHeading(items[2 * i])
       /\ items[2 * i].text \in UsageTopics
       /\ isValidBlock(items[2 * i + 1])

\* C16: for a README with several headings that each name a usage topic
\* ('Basic Usage', 'Advanced Usage', 'Getting Started', ...), each followed
\* by one valid code block, extractUsageExamples returns one example per
\* heading, titled with the heading's text, in document order
OneExamplePerUsageTopic ==
  (usageCall /\ isTopicDocument) =>
    /\ Len(parsed.result) = Len(items) \div 2
    /\ \A i \in 1..(Len(items) \div 2) :
         /\ parsed.result[i].title = items[2 * i].text
         /\ parsed.result[i].code = blockCode(items[2 * i + 1])

\* the README has a heading that opens a usage section
hasUsageHeading == \E j \in 1..Len(items) : isUsageHeading(items[j])

\* the fenced blocks with code, in document order
codeBlocks == SelectSeq(items, hasCode)

\* C17: the whole-document fallback of extractUsageExamples is taken exactly
\* when the README has no usage heading; then every fenced block is a
\* candidate titled 'Usage Example', and when the README has a usage heading
\* no example is made from a block outside the usage sections
FallbackOnlyWithoutUsageHeading ==
  (usageCall /\ isWellFormed) =>
    /\ ~hasUsageHeading =>
         /\ parsed.fallback
         /\ Len(parsed.candidates) = Len(codeBlocks)
         /\ \A i \in 1..Len(codeBlocks) :
              /\ parsed.candidates[i].title = UsageExampleTitle
              /\ parsed.candidates[i].code = blockCode(codeBlocks[i])
    /\ hasUsageHeading =>
         /\ parsed.fallback => parsed.candidates = <<>>
         /\ \A i \in 1..Len(parsed.result) :
           \E j \in 1..Len(items) :
               /\ inUsageSection(j)
               /\ parsed.result[i].code = blockCode(items[j])

\* a call of extractKeywords that ran to its end
keywordCall == parsed.op = "extractKeywords" /\ ~parsed.faulted

\* the terms of the vocabulary that the README contains, letter case ignored,
\* in the order of the vocabulary
vocabularyKeywords ==
  SelectSeq(swiftKeywords,
            LAMBDA term : \E i \in 1..Len(parsed.content.text) :
                            occursAtIgnoreCase(parsed.content.text, term, i))

isKeywordHeading(item) == isHeading(item) /\ Len(item.text) > 2 /\ Len(item.text) < 20

\* the texts of the headings of more than 2 and less than 20 characters, in
\* lowercase and in document order
headingKeywords ==
  [i \in 1..Len(SelectSeq(items, isKeywordHeading)) |->
    toLowerCase(SelectSeq(items, isKeywordHeading)[i].text)]

\* a sequence without the elements that occurred in it before
withoutRepeats(s) ==
  [i \in 1..Cardinality({k \in 1..Len(s) : \A j \in 1..(k - 1) : s[j] # s[k]}) |->
    s[ascending({k \in 1..Len(s) : \A j \in 1..(k - 1) : s[j] # s[k]})[i]]]

allKeywords == withoutRepeats(vocabularyKeywords \o headingKeywords)

isVocabularyTerm(token) == \E i \in 1..Len(swiftKeywords) : swiftKeywords[i] = token

\* C18: extractKeywords returns at most 10 pairwise distinct lowercase tokens,
\* the vocabulary matches before the heading texts: the first 10 of the
\* vocabulary matches followed by the heading texts of more than 2 and less
\* than 20 characters, without repeats; an empty README yields none
KeywordsAreFirstTenDistinct ==
  keywordCall =>
    /\ Len(parsed.result) <= 10
    /\ \A i, j \in 1..Len(parsed.result) : i # j => parsed.result[i] # parsed.result[j]
    /\ \A i \in 1..Len(parsed.result) : parsed.result[i] = toLowerCase(parsed.result[i])
    /\ \A i, j \in 1..Len(parsed.result) :
         (i < j /\ isVocabularyTerm(parsed.result[j])) => isVocabularyTerm(parsed.result[i])
    /\ parsed.result = SubSeq(allKeywords, 1, IF Len(allKeywords) > 10 THEN 10
                                               ELSE Len(allKeywords))
    /\ parsed.content.text = <<>> => parsed.result = <<>>

\* more than 10 keywords, of which the 10 returned end with a heading text
KeywordsAreFirstTenDistinctWitness ==
  /\ keywordCall
  /\ Len(allKeywords) > 10
  /\ Len(parsed.result) = 10
  /\ isVocabularyTerm(parsed.result[9])
  /\ ~isVocabularyTerm(parsed.result[10])

\* a call of extractInstallationInfo that ran to its end
installCall == parsed.op = "extractInstallationInfo" /\ ~parsed.faulted

\* the Cartfile and Podfile lines of the documents, and the part of each that
\* is the signature: github "owner/repo", pod 'Name' or pod "Name"
carthageSignature(line) ==
  IF line = CartfileLine THEN <<"g", "i", "t", "h", "u", "b", " ", "\"", "o", "w", "n", "e", "r", "/", "r", "e", "p", "o", "\"">>
  ELSE IF line = OtherCartfileLine THEN <<"g", "i", "t", "h", "u", "b", " ", "\"", "o", "/", "r", "\"">>
  ELSE <<>>

cocoapodsSignature(line) ==
  IF line = PodfileLine THEN <<"p", "o", "d", " ", "'", "A", "l", "a", "m", "o", "f", "i", "r", "e", "'">>
  ELSE IF line = OtherPodfileLine THEN <<"p", "o", "d", " ", "\"", "M", "o", "y", "a", "\"">>
  ELSE <<>>

isText(item) == item.kind = "text"

isCarthageLine(item) == isText(item) /\ carthageSignature(item.line) # <<>>

isCocoapodsLine(item) == isText(item) /\ cocoapodsSignature(item.line) # <<>>

\* a fenced block, whatever its tag, with a .package( call in its body
isPackageBlock(item) ==
  isBlock(item) /\ \E i \in 1..Len(blockCode(item)) :
                     occursAt(blockCode(item), <<".", "p", "a", "c", "k", "a", "g", "e", "(">>, i)

\* the value is a part of the README, character for character
isVerbatim(value) ==
  \E i \in 1..Len(parsed.content.text) : occursAt(parsed.content.text, value, i)

\* C19: extractInstallationInfo sets carthage (cocoapods) if and only if the
\* README has a github "owner/repo" (pod 'Name' or pod "Name") signature, to
\* the first such signature, a verbatim part of the README; a README with no
\* installation signature yields the empty record
FirstSignatureIsStored ==
  installCall =>
    /\ "carthage" \in DOMAIN parsed.result <=> \E j \in 1..Len(items) : isCarthageLine(items[j])
    /\ "carthage" \in DOMAIN parsed.result =>
         /\ parsed.result.carthage = carthageSignature(SelectSeq(items, isCarthageLine)[1].line)
         /\ isVerbatim(parsed.result.carthage)
    /\ "cocoapods" \in DOMAIN parsed.result <=> \E j \in 1..Len(items) : isCocoapodsLine(items[j])
    /\ "cocoapods" \in DOMAIN parsed.result =>
         /\ parsed.result.cocoapods = cocoapodsSignature(SelectSeq(items, isCocoapodsLine)[1].line)
         /\ isVerbatim(parsed.result.cocoapods)
    /\ (\A j \in 1..Len(items) :
          ~isCarthageLine(items[j]) /\ ~isCocoapodsLine(items[j]) /\ ~isPackageBlock(items[j]))
         => DOMAIN parsed.result = {}

\* two different Cartfile lines, of which the first one is stored
FirstSignatureIsStoredWitness ==
  /\ installCall
  /\ Len(SelectSeq(items, isCarthageLine)) = 2
  /\ SelectSeq(items, isCarthageLine)[1].line # SelectSeq(items, isCarthageLine)[2].line
  /\ parsed.result.carthage = carthageSignature(SelectSeq(items, isCarthageLine)[1].line)
  /\ "cocoapods" \notin DOMAIN parsed.result

\* C20: when the README has a fenced block, with any language tag or none,
\* whose body contains a .package( call, extractInstallationInfo sets spm to
\* the body of the first such block, without its fences and with no text from
\* outside the block
SpmIsFirstPackageBlock ==
  (installCall /\ \E j \in 1..Len(items) : isPackageBlock(items[j])) =>
    /\ "spm" \in DOMAIN parsed.result
    /\ parsed.result.spm = blockCode(SelectSeq(items, isPackageBlock)[1])

(***************************************************************************)
(* CacheManager.createQueryHash: JSON.stringify of { query, ...filters },  *)
(* base64-encoded.                                                         *)
(***************************************************************************)
\* most filters one call is handed
MaxFilters == 2

\* a filter value: a number, a string or undefined
NumberFilter(n) == [type |-> "number", number |-> n, string |-> <<>>]

StringFilter(s) == [type |-> "string", number |-> 0, string |-> s]

UndefinedFilter == [type |-> "undefined", number |-> 0, string |-> <<>>]

Property(k, v) == [key |-> k, value |-> v]

Queries == {<<"a">>, <<"b">>}

FilterKeys == {<<"l", "i", "m", "i", "t">>, <<"q", "u", "a", "l", "i", "t", "y">>,
               <<"q", "u", "e", "r", "y">>}

FilterValues == {NumberFilter(20), StringFilter(<<"b">>), UndefinedFilter}

\* an object literal: its properties in insertion order, no key twice
isObject(props) == \A i, j \in 1..Len(props) : props[i].key = props[j].key => i = j

FilterObjects ==
  {props \in UNION {[1..n -> [key : FilterKeys, value : FilterValues]] : n \in 0..MaxFilters} :
     isObject(props)}

hasProperty(object, k) == \E i \in 1..Len(object) : object[i].key = k

\* object[k] = v: a key that is present keeps its place
assign(object, k, v) ==
  IF hasProperty(object, k)
  THEN [i \in 1..Len(object) |-> IF object[i].key = k THEN Property(k, v) ELSE object[i]]
  ELSE Append(object, Property(k, v))

\* { ...object, ...filters }: the own properties of filters in their order
RECURSIVE spread(_, _)
spread(object, filters) ==
  IF filters = <<>> THEN object
  ELSE spread(assign(object, Head(filters).key, Head(filters).value), Tail(filters))

\* JSON.stringify of a string: in quotes, with " and \ escaped
RECURSIVE escaped(_)
escaped(s) ==
  IF s = <<>> THEN <<>>
  ELSE (IF Head(s) \in {"\"", "\\"} THEN <<"\\", Head(s)>> ELSE <<Head(s)>>) \o escaped(Tail(s))

quoted(s) == <<"\"">> \o escaped(s) \o <<"\"">>

stringifyValue(v) == IF v.type = "number" THEN decimal(v.number) ELSE quoted(v.string)

\* the "key":value members; a property whose value is undefined is left out
RECURSIVE stringifyMembers(_)
stringifyMembers(object) ==
  IF object = <<>> THEN <<>>
  ELSE IF Head(object).value.type = "undefined" THEN stringifyMembers(Tail(object))
  ELSE <<quoted(Head(object).key) \o <<":">> \o stringifyValue(Head(object).value)>>
         \o stringifyMembers(Tail(object))

stringifyObject(object) == <<"{">> \o join(stringifyMembers(object), <<",">>) \o <<"}">>

\* the printable ASCII characters from code 32 on
Ascii ==
  <<" ", "!", "\"", "#", "$", "%", "&", "'", "(", ")", "*", "+", ",", "-", ".", "/",
    "0", "1", "2", "3", "4", "5", "6", "7", "8", "9", ":", ";", "<", "=", ">", "?",
    "@", "A", "B", "C", "D", "E", "F", "G", "H", "I", "J", "K", "L", "M", "N", "O",
    "P", "Q", "R", "S", "T", "U", "V", "W", "X", "Y", "Z", "[", "\\", "]", "^", "_",
    Backtick, "a", "b", "c", "d", "e", "f", "g", "h", "i", "j", "k", "l", "m", "n", "o",
    "p", "q", "r", "s", "t", "u", "v", "w", "x", "y", "z", "{", "|", "}", "~">>

charCode(ch) == 31 + CHOOSE i \in 1..Len(Ascii) : Ascii[i] = ch

\* Buffer.from(text): one byte per ASCII character
bufferFrom(text) == [i \in 1..Len(text) |-> charCode(text[i])]

Base64Alphabet ==
  <<"A", "B", "C", "D", "E", "F", "G", "H", "I", "J", "K", "L", "M", "N", "O", "P",
    "Q", "R", "S", "T", "U", "V", "W", "X", "Y", "Z", "a", "b", "c", "d", "e", "f",
    "g", "h", "i", "j", "k", "l", "m", "n", "o", "p", "q", "r", "s", "t", "u", "v",
    "w", "x", "y", "z", "0", "1", "2", "3", "4", "5", "6", "7", "8", "9", "+", "/">>

sextet(n) == Base64Alphabet[n + 1]

\* buffer.toString('base64'): three bytes become four characters, the last
\* group is padded with =
RECURSIVE toBase64(_)
toBase64(bytes) ==
  IF bytes = <<>> THEN <<>>
  ELSE IF Len(bytes) = 1
  THEN <<sextet(bytes[1] \div 4), sextet((bytes[1] % 4) * 16), "=", "=">>
  ELSE IF Len(bytes) = 2
  THEN <<sextet(bytes[1] \div 4), sextet((bytes[1] % 4) * 16 + bytes[2] \div 16),
         sextet((bytes[2] % 16) * 4), "=">>
  ELSE <<sextet(bytes[1] \div 4), sextet((bytes[1] % 4) * 16 + bytes[2] \div 16),
         sextet((bytes[2] % 16) * 4 + bytes[3] \div 64), sextet(bytes[3] % 64)>>
         \o toBase64(SubSeq(bytes, 4, Len(bytes)))

QueryKey == <<"q", "u", "e", "r", "y">>

createQueryHash(query, filters) ==
  toBase64(bufferFrom(stringifyObject(
    spread(<<Property(QueryKey, StringFilter(query))>>, filters))))

\* the calls made so far: createQueryHash keeps no state of its own
InitHash ==
  /\ cache = <<>>
  /\ maxSize = DefaultMaxSize
  /\ defaultTtl = DefaultTtlSeconds
  /\ now = 0
  /\ last = NoOp
  /\ env = NoEnv
  /\ mgr = NoManager
  /\ call = NoCall
  /\ retry = NoRequest
  /\ ParserIdle
  /\ hashed = NoHashes
  /\ setting = NoSetting
  /\ resolving = NoResolving
  /\ searches = NoSearches

CreateQueryHash ==
  /\ Len(hashed) < 2
  /\ \E query \in Queries, filters \in FilterObjects :
       hashed' = Append(hashed, [query |-> query, filters |-> filters,
                                 token |-> createQueryHash(query, filters)])
  /\ UNCHANGED <<partitionVars, now, last, managerVars, call, retry, parserVars,
                 setting, resolving, searches>>

\* the next pair of calls
ForgetHashes ==
  /\ Len(hashed) = 2
  /\ hashed' = NoHashes
  /\ UNCHANGED <<partitionVars, now, last, managerVars, call, retry, parserVars,
                 setting, resolving, searches>>

NextHash == CreateQueryHash \/ ForgetHashes

SpecHash == InitHash /\ [][NextHash]_vars

\* the filter set of a call: its key/value pairs, whatever their order
filterSet(filters) == {filters[i] : i \in 1..Len(filters)}

sameInput(a, b) == a.query = b.query /\ filterSet(a.filters) = filterSet(b.filters)

\* C21: two createQueryHash calls return the same token if and only if
\* they were handed the same query and the same filter set
TokenIdentifiesQueryAndFilters ==
  \A i, j \in 1..Len(hashed) :
    hashed[i].token = hashed[j].token <=> sameInput(hashed[i], hashed[j])

(***************************************************************************)
(* Properties of clear, getStats and the reads of one partition.           *)
(***************************************************************************)
\* the keys the callers of the manager use
ManagerKeys ==
  {pkgInfoKey(n, ver) : n \in PackageNames, ver \in Versions}
    \cup {pkgReadmeKey(n, ver) : n \in PackageNames, ver \in Versions}
    \cup {searchKey(q, l) : q \in QueryHashes, l \in Limits}
    \cup GeneralKeys

\* what a caller sees of an emptied partition
isCleared(c) ==
  /\ getStats(c).size = 0
  /\ getStats(c).estimatedMemoryUsage = 0
  /\ \A k \in Keys \cup ManagerKeys : ~cacheHasResult(c, k, now)

\* C22: right after clear() the partition reports size 0 and
\* estimatedMemoryUsage 0 and has(k) is false for every key; right after
\* clearAll() this holds for each of the four partitions
ClearLeavesNothing ==
  /\ last.op = "clear" => isCleared(cache)
  /\ last.op = "clearAll" => \A p \in DOMAIN mgr : isCleared(mgr[p].cache)

\* clearAll on a manager whose four partitions each held an entry
ClearLeavesNothingWitness ==
  /\ last.op = "clearAll" /\ last.had
  /\ \A p \in DOMAIN mgr : isCleared(mgr[p].cache)

\* the keys for which has would return true, and their entries
liveKeys(c, t) == {k \in Keys \cup ManagerKeys : cacheHasResult(c, k, t)}

liveEntries(c, t) == SelectSeq(c, LAMBDA e : e.key \in liveKeys(c, t))

\* C23: at any instant getStats().size is the number of keys for which has
\* would return true, and getStats().estimatedMemoryUsage is the sum of the
\* estimated sizes of the entries under those keys
StatsCountLiveEntries ==
  /\ getStats(cache).size = Cardinality(liveKeys(cache, now))
  /\ getStats(cache).estimatedMemoryUsage = SumSizes(liveEntries(cache, now))

\* the entries stored under the other keys, in their order
otherEntries(c, k) == SelectSeq(c, LAMBDA e : e.key # k)

\* a step that is a get or a has call
isRead == last'.op \in {"get", "has"}

\* C29: a get(key) or has(key) call leaves the entries under every other
\* key as they are, removes the entry under key when it is expired, and
\* changes nothing when key is live or absent
ReadsOnlyDropOwnExpiredEntry ==
  [][isRead =>
       /\ otherEntries(cache', last'.key) = otherEntries(cache, last'.key)
       /\ cacheHasResult(cache, last'.key, now) \/ ~MapHas(cache, last'.key) => cache' = cache
       /\ MapHas(cache, last'.key) /\ ~cacheHasResult(cache, last'.key, now)
            => ~MapHas(cache', last'.key)]_vars

\* a read that removed its own expired entry while an expired entry under
\* the other key stayed
ReadsOnlyDropOwnExpiredEntryWitness ==
  /\ last.op \in {"get", "has"}
  /\ last.seen # <<>> /\ isExpired(last.seen[1], now)
  /\ ~MapHas(cache, last.key)
  /\ \E i \in 1..Len(cache) : isExpired(cache[i], now)

\* a step that is a set call
isSet == last'.op = "set"

\* the entries of the Map as a set
stored(c) == {c[i] : i \in 1..Len(c)}

\* C30: after a set call, stored or refused, the Map holds none of the
\* entries that were expired when the call began
SetSweepsExpiredEntries ==
  [][isSet => \A e \in stored(cache) : isExpired(e, now) => e \notin stored(cache')]_vars

\* a refused set that removed the expired entry found under its key
SetSweepsExpiredEntriesWitness ==
  /\ last.op = "set" /\ last.warned
  /\ last.seen # <<>> /\ isExpired(last.seen[1], now)
  /\ ~MapHas(cache, last.key)

(***************************************************************************)
(* MemoryCache.set step by step: the sweep and the size test, then the     *)
(* make-room loop, one test of its condition and one evictLRU at a time,   *)
(* then the write.                                                         *)
(***************************************************************************)
\* the keys of the stepwise set: any string is a key, the empty one too
SetKeys == {"", "k1", "k2"}

SetValues == {StringValue(10), StringValue(23)}

\* the options of the partition: a small maxSize, the default ttl
SetOptions == [ttl |-> 0, maxSize |-> 50]

InitSet ==
  /\ cache = <<>>
  /\ maxSize = NewMaxSize(SetOptions)
  /\ defaultTtl = NewDefaultTtl(SetOptions)
  /\ now = 0
  /\ last = NoOp
  /\ env = NoEnv
  /\ mgr = NoManager
  /\ call = NoCall
  /\ retry = NoRequest
  /\ ParserIdle
  /\ hashed = NoHashes
  /\ setting = NoSetting
  /\ resolving = NoResolving
  /\ searches = NoSearches

\* set(key, value) up to the loop: the entry, the sweep, the size test
BeginSet ==
  /\ setting.pc = "idle"
  /\ \E k \in SetKeys, v \in SetValues \cup {CircularValue} :
       /\ cache' = evictExpired(cache, now)
       /\ setting' = IF tooLarge(v, maxSize) THEN NoSetting
                     ELSE [pc |-> "test", entry |-> Entry(k, v, now, defaultTtl * 1000),
                           estimatedSize |-> estimateSize(v)]
  /\ UNCHANGED <<maxSize, defaultTtl, now, last, managerVars, call, retry, parserVars,
                 hashed, resolving, searches>>

\* the condition of the while loop
TestRoom ==
  /\ setting.pc = "test"
  /\ setting' = [setting EXCEPT !.pc = IF needsRoom(cache, setting.estimatedSize, maxSize)
                                       THEN "evict" ELSE "store"]
  /\ UNCHANGED <<partitionVars, now, last, managerVars, call, retry, parserVars,
                 hashed, resolving, searches>>

\* the body of the while loop
EvictLRU ==
  /\ setting.pc = "evict"
  /\ cache' = evictLRU(cache)
  /\ setting' = [setting EXCEPT !.pc = "test"]
  /\ UNCHANGED <<maxSize, defaultTtl, now, last, managerVars, call, retry, parserVars,
                 hashed, resolving, searches>>

\* this.cache.set(key, entry), and set returns
StoreEntry ==
  /\ setting.pc = "store"
  /\ cache' = MapSet(cache, setting.entry)
  /\ setting' = NoSetting
  /\ UNCHANGED <<maxSize, defaultTtl, now, last, managerVars, call, retry, parserVars,
                 hashed, resolving, searches>>

\* a caller removes a key between two set calls
DeleteKey ==
  /\ setting.pc = "idle"
  /\ \E k \in SetKeys :
       /\ MapHas(cache, k)
       /\ cache' = MapDelete(cache, k)
  /\ UNCHANGED <<maxSize, defaultTtl, now, last, managerVars, call, retry, parserVars,
                 lookupVars>>

NextSet == BeginSet \/ TestRoom \/ EvictLRU \/ StoreEntry \/ DeleteKey

\* a call that has begun goes on running: JavaScript runs set to its end
SpecSet ==
  /\ InitSet
  /\ [][NextSet]_vars
  /\ WF_vars(TestRoom) /\ WF_vars(EvictLRU) /\ WF_vars(StoreEntry)

\* C25: every set call, once inside the make-room loop, comes to its end
SetTerminates == (setting.pc = "test") ~> (setting.pc = "idle")

(***************************************************************************)
(* Properties of ErrorHandler.withRetry.                                   *)
(***************************************************************************)
\* the error withRetry holds after the invocation that met this outcome
errorOf(outcome) == asError(makeRequestThrows(retry.service, outcome))

isRetryableFailure(outcome) == ~responseOk(outcome) /\ isRetryableError(errorOf(outcome))

\* the invocations made so far: every one before the last was a retryable
\* failure, and a call that ended returned the first success or threw the
\* error of its last invocation
retryShape ==
  /\ Len(retry.outcomes) <= maxRetries + 1
  /\ \A i \in 1..(Len(retry.outcomes) - 1) : isRetryableFailure(retry.outcomes[i])
  /\ retry.pc = "resolved" => responseOk(lastOutcome)
  /\ retry.pc = "rejected" =>
       /\ ~responseOk(lastOutcome)
       /\ retry.lastError = errorOf(lastOutcome)
       /\ ~isRetryableError(retry.lastError) \/ Len(retry.outcomes) = maxRetries + 1
  /\ retry.pc = "sleeping" =>
       isRetryableFailure(lastOutcome) /\ Len(retry.outcomes) <= maxRetries

withRetryEnded == retry.pc \in {"resolved", "rejected"}

\* C28: withRetry invokes the operation at most maxRetries + 1 times and
\* comes to an end: it returns the first success, throws at once on a
\* failure that is not retryable, and throws the last error after the
\* (maxRetries + 1)-th retryable failure in a row
WithRetryIsBoundedAndEnds ==
  /\ []retryShape
  /\ (retry.pc = "attempting") ~> withRetryEnded

\* the call that gave up after maxRetries + 1 retryable failures
WithRetryIsBoundedAndEndsWitness ==
  /\ retry.pc = "rejected"
  /\ Len(retry.outcomes) = maxRetries + 1
  /\ isRetryableError(retry.lastError)

\* C27: when GitHub answers the latest-release request with HTTP 404,
\* getLatestRelease returns null to getPackageReadme (which then reads the
\* README at the default branch) instead of throwing
LatestRelease404YieldsNull ==
  (/\ retry.pc = "rejected"
   /\ retry.method = "getLatestRelease"
   /\ lastOutcome.kind = "response"
   /\ lastOutcome.status = 404) => retry.reported = "null"

(***************************************************************************)
(* SwiftPackageResolver.resolveFromCommonPatterns.                         *)
(***************************************************************************)
\* DEFAULT_CONFIG.GITHUB_PATTERNS
GITHUB_PATTERNS ==
  <<[owner |-> <<"a", "p", "p", "l", "e">>, prefix |-> <<>>],
    [owner |-> <<"a", "p", "p", "l", "e">>, prefix |-> <<"s", "w", "i", "f", "t", "-">>],
    [owner |-> <<"s", "w", "i", "f", "t", "l", "a", "n", "g">>, prefix |-> <<>>],
    [owner |-> <<"v", "a", "p", "o", "r">>, prefix |-> <<>>],
    [owner |-> <<"p", "o", "i", "n", "t", "f", "r", "e", "e", "c", "o">>, prefix |-> <<>>],
    [owner |-> <<"s", "w", "i", "f", "t", "-", "s", "e", "r", "v", "e", "r">>, prefix |-> <<>>]>>

\* packageName.split('-')[0]
firstPiece(s) ==
  IF \E i \in 1..Len(s) : s[i] = "-"
  THEN SubSeq(s, 1, (CHOOSE i \in 1..Len(s) : s[i] = "-" /\ \A j \in 1..(i - 1) : s[j] # "-") - 1)
  ELSE s

\* a || b on strings: the empty string is falsy
stringOr(a, b) == IF a # <<>> THEN a ELSE b

commonPatterns(packageName) ==
  [i \in 1..Len(GITHUB_PATTERNS) |->
     [owner |-> GITHUB_PATTERNS[i].owner, repo |-> GITHUB_PATTERNS[i].prefix \o packageName]]
    \o <<[owner |-> stringOr(firstPiece(packageName), packageName), repo |-> packageName]>>

resolvedPackage(pattern) ==
  [owner |-> pattern.owner, repo |-> pattern.repo,
   url |-> <<"h", "t", "t", "p", "s", ":", "/", "/", "g", "i", "t", "h", "u", "b", ".", "c", "o", "m", "/">> \o pattern.owner \o <<"/">> \o pattern.repo]

notFoundMessage(packageName) ==
  <<"P", "a", "c", "k", "a", "g", "e", " ", "'">> \o packageName
    \o <<"'", " ", "n", "o", "t", " ", "f", "o", "u", "n", "d", " ", "i", "n", " ", "S", "w", "i", "f", "t", " ", "P", "a", "c", "k", "a", "g", "e", " ", "I", "n", "d", "e", "x", " ", "o", "r", " ", "c", "o", "m", "m", "o", "n", " ", "G", "i", "t", "H", "u", "b", " ", "p", "a", "t", "t", "e", "r", "n", "s">>

ResolverNames == {<<"n", "i", "o">>, <<"s", "w", "i", "f", "t", "-", "n", "i", "o">>, <<"-", "n", "i", "o">>}

\* how githubApiService.getRepository ends: with the repository, or
\* rejecting with the 404 or with a network error
LookupOutcomes == {"repository", "not found", "network error"}

NoResult == [owner |-> <<>>, repo |-> <<>>, url |-> <<>>]

\* variant of afterLookup: a network error is thrown on to the caller
afterLookupRethrows(r, pattern, outcome) ==
  LET probed == [r EXCEPT !.probes = Append(@, [owner |-> pattern.owner, repo |-> pattern.repo,
                                                outcome |-> outcome])]
  IN  IF outcome = "repository"
      THEN [probed EXCEPT !.pc = "returned", !.result = resolvedPackage(pattern)]
      ELSE IF outcome = "network error" \/ r.index = Len(commonPatterns(r.packageName))
      THEN [probed EXCEPT !.pc = "threw", !.message = notFoundMessage(r.packageName)]
      ELSE [probed EXCEPT !.index = @ + 1]

\* one pass of the for loop: the lookup of one pattern and what follows it
afterLookup(r, pattern, outcome) ==
  LET probed == [r EXCEPT !.probes = Append(@, [owner |-> pattern.owner, repo |-> pattern.repo,
                                                outcome |-> outcome])]
  IN  IF outcome = "repository"
      THEN [probed EXCEPT !.pc = "returned", !.result = resolvedPackage(pattern)]
      ELSE IF r.index = Len(commonPatterns(r.packageName))
      THEN [probed EXCEPT !.pc = "threw", !.message = notFoundMessage(r.packageName)]
      ELSE [probed EXCEPT !.index = @ + 1]

InitResolver ==
  /\ cache = <<>>
  /\ maxSize = DefaultMaxSize
  /\ defaultTtl = DefaultTtlSeconds
  /\ now = 0
  /\ last = NoOp
  /\ env = NoEnv
  /\ mgr = NoManager
  /\ call = NoCall
  /\ retry = NoRequest
  /\ ParserIdle
  /\ hashed = NoHashes
  /\ setting = NoSetting
  /\ resolving = NoResolving
  /\ searches = NoSearches

\* resolveFromCommonPatterns(packageName) is called
StartResolve ==
  /\ resolving.pc \in {"idle", "returned", "threw"}
  /\ \E packageName \in ResolverNames :
       resolving' = [pc |-> "probing", packageName |-> packageName, index |-> 1,
                     probes |-> <<>>, result |-> NoResult, message |-> <<>>]
  /\ UNCHANGED <<partitionVars, now, last, managerVars, call, retry, parserVars,
                 hashed, setting, searches>>

\* await githubApiService.getRepository(pattern.owner, pattern.repo) settles
Lookup ==
  /\ resolving.pc = "probing"
  /\ \E outcome \in LookupOutcomes :
       resolving' = afterLookup(resolving, commonPatterns(resolving.packageName)[resolving.index],
                                outcome)
  /\ UNCHANGED <<partitionVars, now, last, managerVars, call, retry, parserVars,
                 hashed, setting, searches>>

NextResolver == StartResolve \/ Lookup

SpecResolver == InitResolver /\ [][NextResolver]_vars

\* the lookups made so far are those of the first patterns, in order, and
\* none before the last one succeeded
followsPatterns(probes, patterns) ==
  /\ Len(probes) <= Len(patterns)
  /\ \A i \in 1..Len(probes) :
       probes[i].owner = patterns[i].owner /\ probes[i].repo = patterns[i].repo
  /\ \A i \in 1..(Len(probes) - 1) : probes[i].outcome # "repository"

lastSucceeded(probes) == probes # <<>> /\ probes[Len(probes)].outcome = "repository"

allFailed(probes, patterns) ==
  Len(probes) = Len(patterns) /\ \A i \in 1..Len(probes) : probes[i].outcome # "repository"

resolverOutcome(r, patterns) ==
  /\ followsPatterns(r.probes, patterns)
  /\ r.pc = "returned" <=> lastSucceeded(r.probes)
  /\ r.pc = "returned" => r.result = resolvedPackage(patterns[Len(r.probes)])
  /\ r.pc = "threw" <=> allFailed(r.probes, patterns)
  /\ r.pc = "threw" => r.message = notFoundMessage(r.packageName)

\* C24: resolveFromCommonPatterns looks its patterns up in their order, one
\* at a time, returns the first pattern whose lookup succeeds without any
\* later lookup, and throws the not-found error if and only if every
\* lookup failed, with a 404 or with a network error
ResolverReturnsFirstMatch ==
  resolving.pc # "idle" => resolverOutcome(resolving, commonPatterns(resolving.packageName))

\* the third pattern is returned after a network error and a 404
ResolverReturnsFirstMatchWitness ==
  /\ resolving.pc = "returned"
  /\ Len(resolving.probes) = 3
  /\ resolving.probes[1].outcome = "network error"
  /\ resolving.probes[2].outcome = "not found"
  /\ resolving.result.owner = GITHUB_PATTERNS[3].owner

(***************************************************************************)
(* The searchPackages tool and SwiftPackageIndexApiService.searchPackages  *)
(* under concurrent requests: a call gives way to the others at each await.*)
(***************************************************************************)
SearchClients == {1, 2}

SearchQuery == <<"a">>

SearchLimit == 20

\* params.quality of a request: left out, or a score
QualityParams == {UndefinedFilter, NumberFilter(1)}

LimitKey == <<"l", "i", "m", "i", "t">>

QualityKey == <<"q", "u", "a", "l", "i", "t", "y">>

PopularityKey == <<"p", "o", "p", "u", "l", "a", "r", "i", "t", "y">>

\* the hash the tool computes, and the one the service computes
toolQueryHash(query, limit, quality) ==
  createQueryHash(query, <<Property(LimitKey, NumberFilter(limit)),
                           Property(QualityKey, quality),
                           Property(PopularityKey, UndefinedFilter)>>)

serviceQueryHash(query, limit) ==
  createQueryHash(query, <<Property(LimitKey, NumberFilter(limit))>>)

\* searchKey on strings given character by character
searchKeyOf(queryHash, limit) ==
  <<"s", "e", "a", "r", "c", "h", ":">> \o queryHash \o <<":">> \o decimal(limit)

\* what the two callers store in the search partition
IndexResponse == [kind |-> "object", len |-> 40, shape |-> "SwiftPackageIndexSearchResponse"]

ToolResponse == [kind |-> "object", len |-> 60, shape |-> "SearchPackagesResponse"]

\* if (cached): undefined is falsy, an object is truthy
isTruthy(v) == v.kind # "undefined"

searchProbe(m, key) == cacheGetResult(m.searchCache.cache, key, now)

IdleSearch == [pc |-> "idle", quality |-> UndefinedFilter, returned |-> UndefinedValue,
               fromCache |-> FALSE]

InitSearch ==
  /\ cache = <<>>
  /\ maxSize = DefaultMaxSize
  /\ defaultTtl = DefaultTtlSeconds
  /\ now = 0
  /\ last = NoOp
  /\ env = NoEnv
  /\ mgr = NewCacheManager(env)
  /\ call = NoCall
  /\ retry = NoRequest
  /\ ParserIdle
  /\ hashed = NoHashes
  /\ setting = NoSetting
  /\ resolving = NoResolving
  /\ searches = [c \in SearchClients |-> IdleSearch]

\* the tool up to its first await: the hash and the probe of the cache
ToolProbe(c) ==
  /\ searches[c].pc = "idle"
  /\ \E quality \in QualityParams :
       LET key == searchKeyOf(toolQueryHash(SearchQuery, SearchLimit, quality), SearchLimit)
           cached == searchProbe(mgr, key)
       IN  /\ mgr' = partitionAfterGet(mgr, "searchCache", key, now)
           /\ searches' = [searches EXCEPT ![c] =
                IF isTruthy(cached)
                THEN [pc |-> "returned", quality |-> quality, returned |-> cached,
                      fromCache |-> TRUE]
                ELSE [IdleSearch EXCEPT !.pc = "service", !.quality = quality]]
  /\ UNCHANGED <<partitionVars, now, last, env, call, retry, parserVars,
                 hashed, setting, resolving>>

\* the service up to its await: its own hash and probe; a hit goes back to
\* the tool, whose loop over spiResults.results throws if there is no such
\* list
ServiceProbe(c) ==
  /\ searches[c].pc = "service"
  /\ LET key == searchKeyOf(serviceQueryHash(SearchQuery, SearchLimit), SearchLimit)
         cached == searchProbe(mgr, key)
     IN  /\ mgr' = partitionAfterGet(mgr, "searchCache", key, now)
         /\ searches' = [searches EXCEPT ![c].pc =
              IF ~isTruthy(cached) THEN "fetching"
              ELSE IF cached.shape = IndexResponse.shape THEN "details"
              ELSE "threw"]
  /\ UNCHANGED <<partitionVars, now, last, env, call, retry, parserVars,
                 hashed, setting, resolving>>

\* withRetry settles: the service stores the index response and returns
\* it, or the request has failed and the tool throws
ServiceFill(c) ==
  /\ searches[c].pc = "fetching"
  /\ \E ok \in BOOLEAN :
       /\ mgr' = IF ok
                 THEN partitionSet(mgr, "searchCache",
                        searchKeyOf(serviceQueryHash(SearchQuery, SearchLimit), SearchLimit),
                        IndexResponse, <<>>, now)
                 ELSE mgr
       /\ searches' = [searches EXCEPT ![c].pc = IF ok THEN "details" ELSE "threw"]
  /\ UNCHANGED <<partitionVars, now, last, env, call, retry, parserVars,
                 hashed, setting, resolving>>

\* the awaits for the details of each result are over: the tool stores its
\* response and returns it
ToolFill(c) ==
  /\ searches[c].pc = "details"
  /\ mgr' = partitionSet(mgr, "searchCache",
              searchKeyOf(toolQueryHash(SearchQuery, SearchLimit, searches[c].quality),
                          SearchLimit),
              ToolResponse, <<>>, now)
  /\ searches' = [searches EXCEPT ![c].pc = "returned", ![c].returned = ToolResponse]
  /\ UNCHANGED <<partitionVars, now, last, env, call, retry, parserVars,
                 hashed, setting, resolving>>

\* the client sends its next request
NextSearch(c) ==
  /\ searches[c].pc \in {"returned", "threw"}
  /\ searches' = [searches EXCEPT ![c] = IdleSearch]
  /\ UNCHANGED <<partitionVars, now, last, managerVars, call, retry, parserVars,
                 hashed, setting, resolving>>

\* the search partition is emptied (clearAll, or the entries ran out)
DropSearches ==
  /\ mgr.searchCache.cache # <<>>
  /\ mgr' = [mgr EXCEPT !.searchCache.cache = clear(@)]
  /\ UNCHANGED <<partitionVars, now, last, env, call, retry, parserVars, lookupVars>>

NextSearches ==
  \/ \E c \in SearchClients :
       ToolProbe(c) \/ ServiceProbe(c) \/ ServiceFill(c) \/ ToolFill(c) \/ NextSearch(c)
  \/ DropSearches

SpecSearch == InitSearch /\ [][NextSearches]_vars

\* C26: whatever the interleaving, a value the searchPackages tool returns
\* from the search cache is a response the tool stored, never the index
\* response stored by SwiftPackageIndexApiService.searchPackages
CachedSearchIsToolResponse ==
  \A c \in SearchClients :
    (searches[c].pc = "returned" /\ searches[c].fromCache)
       => searches[c].returned.shape = ToolResponse.shape

====
